---- MODULE Spec2Model ----
(***************************************************************************)
(* Model of the siberia HTTP-to-spreadsheet bridge (src/main.go and the    *)
(* internal/ packages).                                                    *)
(*                                                                         *)
(* Strings are sequences of one-character strings, so that TrimSpace,      *)
(* Atoi, ParseFloat, time.Parse and convertDateFormat are computed and not *)
(* assumed.  A sheet title is a sequence of tokens (the result of          *)
(* fmt.Sprintf("Табель %s %d", month, year) is <<"Tabel", month, year>>).  *)
(* The remote spreadsheet is a list of sheets, each with a grid of cells   *)
(* (a function from <<row, col>> to the non-empty string stored there).    *)
(***************************************************************************)
EXTENDS Integers, Sequences, FiniteSets, TLC

VARIABLES
    \* ---- remote spreadsheet -------------------------------------------
    sheets,          \* sequence of [id, title, hidden]: the sheet list, in order
    grid,            \* grid[id]: the cells of sheet id
    nextId,          \* id the remote store gives to the next copied sheet
    \* ---- process globals of main.go -----------------------------------
    server,          \* "boot" | "serving" | "dead" (log.Fatalf)
    sheetCache,      \* set of titles t with sheetCache[t] = true
    templateSheetID, \* id of the template sheet, 0 before initSheetCache
    mux,             \* sheetCacheMux: [writer |-> handler or "none", readers |-> set]
    \* ---- one /submit-timesheet request per handler goroutine ----------
    pc,              \* position of each handler
    req,             \* the decoded TimesheetData of each handler
    loc,             \* locals of the call in progress
    status,          \* HTTP status answered, 0 while none
    \* ---- history of each request (not read by the program) ------------
    touched,         \* the remote mutations and cache writes each request made:
                     \* <<"copy">>, <<"rename">>, <<"clear">>, <<"visibility">>,
                     \* <<"cache">>, <<"cell", title, <<row, col>>>>
    lastWrite,       \* per <<title, fullName, day>>: hours of the last applied write
    cloneLog,        \* the returns of CopyAndPrepareSheet so far: [title, ok]
    \* ---- production ledger (the sheet "Выпуск", columns A..G) ----------
    ledger,          \* the cells of the production sheet
    writer,          \* "reflow" (main.go) | "append" (internal/models)
    ppc,             \* position of each /submit-production handler
    preq,            \* the ProductionData each handler decoded from the body
    ploc,            \* locals: data after the date default, the matrix to write
    pstatus,         \* HTTP status answered, 0 while none
    ledgerOps,       \* history: the remote calls each handler made, [call, ok]
    \* ---- cell locator on its own ---------------------------------------
    lcGrid, lcReq, lcOut,
    \* ---- columnToLetter on its own ------------------------------------
    ctCol,           \* the column number passed in
    ctLetter,        \* the letters returned, <<"?">> before the call
    \* ---- functions of earlier revisions, each on its own ---------------
    esv,             \* a call of ensureSheetVisible: [rev, sheetName, sheets, ret]
    retry            \* a call of the retrying append: [fn, values, i, calls, rows, ret]

vars == <<sheets, grid, nextId, server, sheetCache, templateSheetID, mux,
          pc, req, loc, status, touched, lastWrite, cloneLog,
          ledger, writer, ppc, preq, ploc, pstatus, ledgerOps,
          lcGrid, lcReq, lcOut, ctCol, ctLetter, esv, retry>>

tsVars == <<sheets, grid, nextId, server, sheetCache, templateSheetID, mux,
            pc, req, loc, status, touched, lastWrite, cloneLog>>
\* tsVars without the process state
shVars == <<sheets, grid, nextId, sheetCache, templateSheetID, mux,
            pc, req, loc, status, touched, lastWrite, cloneLog>>
prVars == <<ledger, writer, ppc, preq, ploc, pstatus, ledgerOps>>
lcVars == <<lcGrid, lcReq, lcOut, ctCol, ctLetter, esv, retry>>

----------------------------------------------------------------------------
(* Strings *)

Digits == <<"0", "1", "2", "3", "4", "5", "6", "7", "8", "9">>

Alphabet == <<"A", "B", "C", "D", "E", "F", "G", "H", "I", "J", "K", "L", "M",
              "N", "O", "P", "Q", "R", "S", "T", "U", "V", "W", "X", "Y", "Z">>

IsDigit(c) == \E i \in 1..10 : Digits[i] = c

DigitVal(c) == (CHOOSE i \in 1..10 : Digits[i] = c) - 1

IsSpace(c) == c = " "

RECURSIVE TrimLeft(_)
TrimLeft(s) ==
    IF Len(s) > 0 /\ IsSpace(s[1]) THEN TrimLeft(Tail(s)) ELSE s

RECURSIVE TrimRight(_)
TrimRight(s) ==
    IF Len(s) > 0 /\ IsSpace(s[Len(s)])
    THEN TrimRight(SubSeq(s, 1, Len(s) - 1))
    ELSE s

\* strings.TrimSpace
TrimSpace(s) == TrimRight(TrimLeft(s))

AllDigits(s) == Len(s) > 0 /\ \A i \in 1..Len(s) : IsDigit(s[i])

RECURSIVE DigitsValue(_)
DigitsValue(s) ==
    IF Len(s) = 0 THEN 0
    ELSE 10 * DigitsValue(SubSeq(s, 1, Len(s) - 1)) + DigitVal(s[Len(s)])

\* strconv.Atoi: an optional sign, then one or more decimal digits
Atoi(s) ==
    LET signed == Len(s) > 0 /\ s[1] \in {"+", "-"}
        body   == IF signed THEN Tail(s) ELSE s
    IN  IF AllDigits(body)
        THEN [ok |-> TRUE,
              val |-> IF signed /\ s[1] = "-" THEN 0 - DigitsValue(body)
                      ELSE DigitsValue(body)]
        ELSE [ok |-> FALSE, val |-> 0]

\* strconv.ParseFloat(s, 64) on decimal literals sign? digits* ("." digits*)?
\* with at least one digit; val10 is ten times the value (one fractional
\* digit is kept, which is all the inputs carry).
ParseFloat(s) ==
    LET signed == Len(s) > 0 /\ s[1] \in {"+", "-"}
        body   == IF signed THEN Tail(s) ELSE s
        dots   == {i \in 1..Len(body) : body[i] = "."}
        dot    == IF dots = {} THEN Len(body) + 1 ELSE CHOOSE i \in dots : TRUE
        ip     == SubSeq(body, 1, dot - 1)
        fp     == SubSeq(body, dot + 1, Len(body))
        wellFormed ==
            /\ Cardinality(dots) <= 1
            /\ \A i \in 1..Len(ip) : IsDigit(ip[i])
            /\ \A i \in 1..Len(fp) : IsDigit(fp[i])
            /\ Len(ip) + Len(fp) > 0
        mag    == 10 * DigitsValue(ip) + (IF Len(fp) > 0 THEN DigitVal(fp[1]) ELSE 0)
    IN  IF wellFormed
        THEN [ok |-> TRUE,
              val10 |-> IF signed /\ s[1] = "-" THEN 0 - mag ELSE mag]
        ELSE [ok |-> FALSE, val10 |-> 0]

\* fmt.Sprintf("%d", n) for n >= 0
RECURSIVE Itoa(_)
Itoa(n) ==
    IF n < 10 THEN <<Digits[n + 1]>>
    ELSE Itoa(n \div 10) \o <<Digits[(n % 10) + 1]>>

----------------------------------------------------------------------------
(* Dates *)

IsLeap(y) == (y % 4 = 0 /\ y % 100 # 0) \/ y % 400 = 0

DaysIn(y, m) ==
    IF m = 2 THEN (IF IsLeap(y) THEN 29 ELSE 28)
    ELSE IF m \in {4, 6, 9, 11} THEN 30 ELSE 31

\* time.Parse("2006-01-02", s): four digits, "-", two digits, "-", two
\* digits, naming a day that exists
ParseDate(s) ==
    LET shape ==
            /\ Len(s) = 10
            /\ s[5] = "-" /\ s[8] = "-"
            /\ \A i \in {1, 2, 3, 4, 6, 7, 9, 10} : IsDigit(s[i])
        y == DigitsValue(SubSeq(s, 1, 4))
        m == DigitsValue(SubSeq(s, 6, 7))
        d == DigitsValue(SubSeq(s, 9, 10))
    IN  IF shape /\ m \in 1..12 /\ d \in 1..DaysIn(y, m)
        THEN [ok |-> TRUE, year |-> y, month |-> m, day |-> d]
        ELSE [ok |-> FALSE, year |-> 0, month |-> 0, day |-> 0]

monthNames == <<"Yanvar", "Fevral", "Mart", "Aprel", "May", "Iyun",
                "Iyul", "Avgust", "Sentyabr", "Oktyabr", "Noyabr", "Dekabr">>

\* getMonthSheetName: fmt.Sprintf("Табель %s %d", month, year)
\* a title that tells the days of a month apart
getMonthSheetNameOfDay(date) == <<"Tabel", monthNames[date.month], date.year, date.day>>

getMonthSheetName(date) == <<"Tabel", monthNames[date.month], date.year>>

----------------------------------------------------------------------------
(* The remote store: cell ranges (Values.Get, Values.Update, Values.Clear) *)

SetMax(S) == CHOOSE x \in S : \A y \in S : y <= x

SetMin(S) == CHOOSE x \in S : \A y \in S : x <= y

EmptyGrid == [a \in {} |-> <<>>]

Cell(g, r, c) == IF <<r, c>> \in DOMAIN g THEN g[<<r, c>>] ELSE <<>>

\* Values.Get of the rectangle rg: rows up to the last non-empty one, each cut
\* after its last non-empty cell; an empty row in between is an empty list.
GetRange(g, rg) ==
    LET inside == {a \in DOMAIN g : /\ a[1] >= rg.r1 /\ a[1] <= rg.r2
                                    /\ a[2] >= rg.c1 /\ a[2] <= rg.c2}
        RowOf(r) ==
            LET cols == {a[2] : a \in {b \in inside : b[1] = r}}
            IN  IF cols = {} THEN <<>>
                ELSE [j \in 1..(SetMax(cols) - rg.c1 + 1) |-> Cell(g, r, rg.c1 + j - 1)]
    IN  IF inside = {} THEN <<>>
        ELSE [i \in 1..(SetMax({a[1] : a \in inside}) - rg.r1 + 1) |-> RowOf(rg.r1 + i - 1)]

\* the cells upd names take its values; writing "" empties a cell
SetCells(g, upd) ==
    LET dom == (DOMAIN g \ DOMAIN upd) \cup {a \in DOMAIN upd : upd[a] # <<>>}
    IN  [a \in dom |-> IF a \in DOMAIN upd THEN upd[a] ELSE g[a]]

\* Values.Update of the matrix values with its top-left cell at <<r1, c1>>:
\* a row of the matrix writes as many cells as it holds, an empty row none
UpdateRange(g, r1, c1, values) ==
    LET addrs == UNION {{<<r1 + i - 1, c1 + j - 1>> : j \in 1..Len(values[i])} :
                        i \in 1..Len(values)}
    IN  SetCells(g, [a \in addrs |-> values[a[1] - r1 + 1][a[2] - c1 + 1]])

\* Values.Clear of the rectangle rg
ClearRange(g, rg) ==
    LET keep == {a \in DOMAIN g : ~(/\ a[1] >= rg.r1 /\ a[1] <= rg.r2
                                    /\ a[2] >= rg.c1 /\ a[2] <= rg.c2)}
    IN  [a \in keep |-> g[a]]

\* the remote store's reading of the column letters of an A1 address
RECURSIVE LetterToColumn(_)
LetterToColumn(letters) ==
    IF Len(letters) = 0 THEN 0
    ELSE 26 * LetterToColumn(SubSeq(letters, 1, Len(letters) - 1))
         + (CHOOSE i \in 1..26 : Alphabet[i] = letters[Len(letters)])

----------------------------------------------------------------------------
(* Cell locator *)

NameBand == [r1 |-> 4, c1 |-> 2, r2 |-> 12, c2 |-> 2]     \* "%s!B4:B12"

DayBand == [r1 |-> 3, c1 |-> 3, r2 |-> 3, c2 |-> 33]      \* "%s!C3:AG3"

ClearBand == [r1 |-> 4, c1 |-> 3, r2 |-> 17, c2 |-> 33]   \* "%s!C4:AG17"

\* columnToLetter: the loop  for col > 0 { col--; letter = 'A'+col%26 + letter; col /= 26 }
RECURSIVE columnToLetterLoop(_, _)
columnToLetterLoop(col, letter) ==
    IF col > 0
    THEN columnToLetterLoop((col - 1) \div 26, <<Alphabet[((col - 1) % 26) + 1]>> \o letter)
    ELSE letter

\* the loop without its  col--  (columns counted from 0)
columnToLetterZeroBased(col) == columnToLetterLoop(col + 1, <<>>)

columnToLetter(col) == columnToLetterLoop(col, <<>>)

\* the scan of the names without its break: the last match stays
RECURSIVE ScanNamesLast(_, _, _)
ScanNamesLast(rows, k, fullName) ==
    IF k > Len(rows) THEN 0
    ELSE LET rest == ScanNamesLast(rows, k + 1, fullName)
         IN  IF rest # 0 THEN rest
             ELSE IF Len(rows[k]) > 0 /\ TrimSpace(rows[k][1]) = fullName
                  THEN 4 + (k - 1) ELSE 0

\* for i, row := range respNames.Values { if len(row) > 0 &&
\*   strings.TrimSpace(row[0]) == data.FullName { targetRow = 4 + i; break } }
\* (k is i + 1)
RECURSIVE ScanNames(_, _, _)
ScanNames(rows, k, fullName) ==
    IF k > Len(rows) THEN 0
    ELSE IF Len(rows[k]) > 0 /\ TrimSpace(rows[k][1]) = fullName
         THEN 4 + (k - 1)
         ELSE ScanNames(rows, k + 1, fullName)

\* for i, cell := range respDays.Values[0] { cellDay, err := Atoi(TrimSpace(cell));
\*   if err == nil && cellDay == dayToFind { targetCol = 3 + i; break } }
\* the scan with targetCol starting at the first day column instead of 0
RECURSIVE ScanDaysDefault(_, _, _)
ScanDaysDefault(cells, k, dayToFind) ==
    IF k > Len(cells) THEN 3
    ELSE LET cellDay == Atoi(TrimSpace(cells[k]))
         IN  IF cellDay.ok /\ cellDay.val = dayToFind
             THEN 3 + (k - 1)
             ELSE ScanDaysDefault(cells, k + 1, dayToFind)

RECURSIVE ScanDays(_, _, _)
ScanDays(cells, k, dayToFind) ==
    IF k > Len(cells) THEN 0
    ELSE LET cellDay == Atoi(TrimSpace(cells[k]))
         IN  IF cellDay.ok /\ cellDay.val = dayToFind
             THEN 3 + (k - 1)
             ELSE ScanDays(cells, k + 1, dayToFind)

NoCell(why) == [err |-> why, colLetter |-> <<>>, row |-> 0, col |-> 0]

\* findTimesheetCell on the cells g of the month's sheet (the two Values.Get
\* succeeding); err is "" on success and names the failure otherwise
findTimesheetCell(g, data) ==
    LET inputDate == ParseDate(data.date)
        respNames == GetRange(g, NameBand)
        targetRow == ScanNames(respNames, 1, data.fullName)
        respDays  == GetRange(g, DayBand)
        targetCol == IF Len(respDays) > 0
                     THEN ScanDays(respDays[1], 1, inputDate.day) ELSE 0
    IN  IF ~inputDate.ok THEN NoCell("invalid date format")
        ELSE IF targetRow = 0 THEN NoCell("full name not found")
        ELSE IF targetCol = 0 THEN NoCell("day not found")
        ELSE [err |-> "", colLetter |-> columnToLetter(targetCol),
              row |-> targetRow, col |-> targetCol]


----------------------------------------------------------------------------
(* The spreadsheet's sheet list *)

ProductionSheet == <<"Vypusk">>      \* config.ProductionSheet

TimesheetSheet == <<"Tabel">>        \* the template's title, "Табель"

Titles(ss) == {ss[i].title : i \in 1..Len(ss)}

HasTitle(ss, t) == \E i \in 1..Len(ss) : ss[i].title = t

\* the id of the sheet an A1 range "title!..." names
IdOfTitle(ss, t) == ss[CHOOSE i \in 1..Len(ss) : ss[i].title = t].id

IdxOfId(ss, id) == CHOOSE i \in 1..Len(ss) : ss[i].id = id

RemoveAt(ss, k) == [i \in 1..(Len(ss) - 1) |-> IF i < k THEN ss[i] ELSE ss[i + 1]]

InsertAt(ss, k, x) ==
    [i \in 1..(Len(ss) + 1) |-> IF i < k THEN ss[i] ELSE IF i = k THEN x ELSE ss[i - 1]]

\* UpdateSheetProperties{Index: 1}: the sheet becomes the second of the list
MoveToIndex1(ss, id) ==
    LET k    == IdxOfId(ss, id)
        rest == RemoveAt(ss, k)
    IN  IF Len(rest) = 0 THEN ss ELSE InsertAt(rest, 2, ss[k])

SetHidden(ss, id, h) ==
    [i \in 1..Len(ss) |-> IF ss[i].id = id THEN [ss[i] EXCEPT !.hidden = h] ELSE ss[i]]

SetTitle(ss, id, t) ==
    [i \in 1..Len(ss) |-> IF ss[i].id = id THEN [ss[i] EXCEPT !.title = t] ELSE ss[i]]

\* strings.Contains(strings.ToLower(title), "табель")
ContainsTabel(t) == t[1] = "Tabel"

\* initSheetCache after ListSheets returned sheetsList: the titles cached, the
\* template chosen, and whether it ended in log.Fatalf
initSheetCacheResult(sheetsList) ==
    LET n      == Len(sheetsList)
        exact  == {i \in 1..n : sheetsList[i].title = TimesheetSheet}
        others == {i \in 1..n : ContainsTabel(sheetsList[i].title)}
    IN  IF exact # {}
        THEN \* first loop: returns inside the loop at the template
             [cache    |-> {sheetsList[i].title : i \in 1..SetMin(exact)},
              template |-> sheetsList[SetMin(exact)].id,
              fatal    |-> FALSE]
        ELSE IF others # {}
        THEN [cache    |-> Titles(sheetsList),
              template |-> sheetsList[SetMin(others)].id,
              fatal    |-> FALSE]
        ELSE [cache |-> Titles(sheetsList), template |-> 0, fatal |-> TRUE]

\* ensureSheetVisible after Spreadsheets.Get returned sheetList: the sheet to
\* hide (0: none) and the target (0: not found)
ensureSheetVisiblePlan(sheetList, sheetName) ==
    LET n       == Len(sheetList)
        actives == {i \in 1..n : /\ sheetList[i].title # ProductionSheet
                                 /\ ~sheetList[i].hidden
                                 /\ sheetList[i].title # sheetName}
        targets == {i \in 1..n : /\ sheetList[i].title # ProductionSheet
                                 /\ sheetList[i].title = sheetName}
        currentActiveTimesheetID ==
            IF actives = {} THEN 0 ELSE sheetList[SetMax(actives)].id
        targetSheetID ==
            IF targets = {} THEN 0 ELSE sheetList[SetMax(targets)].id
    IN  [target |-> targetSheetID,
         hide   |-> IF currentActiveTimesheetID # 0 /\ currentActiveTimesheetID # targetSheetID
                    THEN currentActiveTimesheetID ELSE 0]

\* the BatchUpdate ensureSheetVisible sends: hide plan.hide, then show the
\* target and move it to index 1
ensureSheetVisibleApply(ss, plan) ==
    LET hid == IF plan.hide # 0 THEN SetHidden(ss, plan.hide, TRUE) ELSE ss
    IN  MoveToIndex1(SetHidden(hid, plan.target, FALSE), plan.target)

\* UpdateSheetProperties{Index: 0}: the sheet becomes the first of the list
MoveToIndex0(ss, id) ==
    LET k == IdxOfId(ss, id)
    IN  InsertAt(RemoveAt(ss, k), 1, ss[k])

\* ensureSheetVisible of the revision unnamed/part_007 after Spreadsheets.Get
\* returned sheetList: every sheet is looked at, the production sheet too
ensureSheetVisiblePlan007(sheetList, sheetName) ==
    LET n       == Len(sheetList)
        actives == {i \in 1..n : ~sheetList[i].hidden /\ sheetList[i].title # sheetName}
        targets == {i \in 1..n : sheetList[i].title = sheetName}
        currentActiveSheetID ==
            IF actives = {} THEN 0 ELSE sheetList[SetMax(actives)].id
        targetSheetID ==
            IF targets = {} THEN 0 ELSE sheetList[SetMax(targets)].id
    IN  [target |-> targetSheetID,
         hide   |-> IF currentActiveSheetID # 0 /\ currentActiveSheetID # targetSheetID
                    THEN currentActiveSheetID ELSE 0]

\* the BatchUpdate that revision sends: hide plan.hide, then show the target
\* and move it to index 0
ensureSheetVisibleApply007(ss, plan) ==
    LET hid == IF plan.hide # 0 THEN SetHidden(ss, plan.hide, TRUE) ELSE ss
    IN  MoveToIndex0(SetHidden(hid, plan.target, FALSE), plan.target)

\* "Табель учета рабочего времени за %s %d год"
SheetCaption(date) ==
    <<"Tabel ucheta rabochego vremeni za ", monthNames[date.month], " ">>
        \o Itoa(date.year) \o <<" god">>

\* RepeatCell over row 0..1, columns 0..26 with the caption
StampCaption(g, date) ==
    SetCells(g, [a \in {<<1, c>> : c \in 1..26} |-> SheetCaption(date)])


----------------------------------------------------------------------------
(* Inputs of the timesheet path *)

Handlers == {"h1", "h2"}      \* the goroutines serving requests at one time

Pad2(n) == IF n < 10 THEN <<"0">> \o Itoa(n) ELSE Itoa(n)

\* time.Time.Format("2006-01-02")
FormatDate(t) == Itoa(t.year) \o <<"-">> \o Pad2(t.month) \o <<"-">> \o Pad2(t.day)

\* what time.Now() may return
Clock == {[year |-> 2024, month |-> 3, day |-> 5], [year |-> 2024, month |-> 4, day |-> 5]}

March == [year |-> 2024, month |-> 3, day |-> 1]

ReqNames == {<<"A">>, <<"Z">>}

ReqDates == {FormatDate([year |-> 2024, month |-> 3, day |-> 5]),
             FormatDate([year |-> 2024, month |-> 4, day |-> 5]),
             FormatDate([year |-> 2024, month |-> 3, day |-> 9]),
             <<>>}

ReqHours == {<<"8">>, <<"2", "4", ".", "5">>, <<"x">>}

\* bodies the field checks refuse: a blank name, no hours, a date that is not
\* YYYY-MM-DD
RefusedRequests ==
    {[date |-> FormatDate(March), fullName |-> <<" ">>, hours |-> <<"8">>],
     [date |-> FormatDate(March), fullName |-> <<"A">>, hours |-> <<>>],
     [date |-> <<"0", "5", ".", "0", "3", ".", "2", "0", "2", "4">>,
      fullName |-> <<"A">>, hours |-> <<"8">>]}

TimesheetRequests ==
    [date : ReqDates, fullName : ReqNames, hours : ReqHours] \cup RefusedRequests

\* the template "Табель": names in B4:B12, day numbers in C3:AG3, and hours
\* left in the data region
TemplateGrid ==
    (<<4, 2>> :> <<"B">>) @@ (<<5, 2>> :> <<"A", " ">>) @@
    (<<3, 3>> :> <<"4">>) @@ (<<3, 4>> :> <<"5">>) @@
    (<<5, 4>> :> <<"1">>)

ProductionTab == [id |-> 1, title |-> ProductionSheet, hidden |-> FALSE]

TemplateTab(h) == [id |-> 2, title |-> TimesheetSheet, hidden |-> h]

MarchTab(h) == [id |-> 3, title |-> getMonthSheetName(March), hidden |-> h]

\* the spreadsheets the server may be started on: the production sheet first,
\* then the template and the sheet of March 2024, each present or not, in
\* either order, hidden or shown
InitialSheetLists ==
    {<<ProductionTab>>}
    \cup {<<ProductionTab, TemplateTab(h)>> : h \in BOOLEAN}
    \cup {<<ProductionTab, MarchTab(h)>> : h \in BOOLEAN}
    \cup {<<ProductionTab, TemplateTab(h[1]), MarchTab(h[2])>> : h \in BOOLEAN \X BOOLEAN}
    \cup {<<ProductionTab, MarchTab(h[2]), TemplateTab(h[1])>> : h \in BOOLEAN \X BOOLEAN}

\* read is the id of the sheet whose bands findTimesheetCell was given
NoLocals == [exists |-> FALSE, newSheetID |-> 0, hide |-> 0, target |-> 0,
             cell |-> NoCell(""), read |-> 0]

NoRequest == [date |-> <<>>, fullName |-> <<>>, hours |-> <<>>]

\* no request in progress
TsIdle ==
    /\ mux = [writer |-> "none", readers |-> {}]
    /\ pc = [p \in Handlers |-> "idle"]
    /\ req = [p \in Handlers |-> NoRequest]
    /\ loc = [p \in Handlers |-> NoLocals]
    /\ status = [p \in Handlers |-> 0]
    /\ touched = [p \in Handlers |-> {}]
    /\ lastWrite = [k \in {} |-> <<>>]
    /\ cloneLog = <<>>

TsInit ==
    /\ sheets \in InitialSheetLists
    /\ grid = [id \in 1..3 |-> IF id = 1 THEN EmptyGrid ELSE TemplateGrid]
    /\ nextId = 4
    /\ server = "boot"
    /\ sheetCache = {}
    /\ templateSheetID = 0
    /\ TsIdle


----------------------------------------------------------------------------
(* /submit-timesheet: timesheetHandler, handleMonthSheet, CopyAndPrepareSheet,
   appendTimesheetData, ensureSheetVisible.  One step per remote call or lock
   operation; the local code up to the next one belongs to the step. *)

monthSheetName(p) == getMonthSheetName(ParseDate(req[p].date))

Unlocked == [writer |-> "none", readers |-> {}]

\* http.Error / WriteHeader: the handler returns
Respond(p, code) ==
    /\ pc' = [pc EXCEPT ![p] = "done"]
    /\ status' = [status EXCEPT ![p] = code]
    /\ loc' = [loc EXCEPT ![p] = NoLocals]

\* timesheetHandler after handleMonthSheet returned nil: the ParseFloat check,
\* then appendTimesheetData
AfterMonthSheet(p) ==
    IF ParseFloat(req[p].hours).ok
    THEN /\ pc' = [pc EXCEPT ![p] = "esvGet"]
         /\ loc' = [loc EXCEPT ![p] = NoLocals]
         /\ UNCHANGED status
    ELSE Respond(p, 400)

\* main(): initSheetCache, then the handlers are served
InitSheetCache ==
    /\ UNCHANGED <<prVars, lcVars>>
    /\ server = "boot"
    /\ \E listed \in BOOLEAN :
         LET r == initSheetCacheResult(sheets)
         IN  IF listed /\ ~r.fatal
             THEN /\ sheetCache' = r.cache
                  /\ templateSheetID' = r.template
                  /\ server' = "serving"
             ELSE /\ server' = "dead"
                  /\ sheetCache' = IF listed THEN r.cache ELSE sheetCache
                  /\ UNCHANGED templateSheetID
    /\ UNCHANGED <<sheets, grid, nextId, mux, pc, req, loc, status, touched,
                   lastWrite, cloneLog>>

\* timesheetHandler up to the call of handleMonthSheet
Receive(p) ==
    /\ UNCHANGED <<prVars, lcVars>>
    /\ server = "serving"
    /\ pc[p] = "idle"
    /\ \E data \in TimesheetRequests, now \in Clock :
         LET dated == IF data.date = <<>>
                      THEN [data EXCEPT !.date = FormatDate(now)] ELSE data
         IN  /\ req' = [req EXCEPT ![p] = dated]
             /\ IF TrimSpace(data.fullName) = <<>> \/ TrimSpace(data.hours) = <<>>
                THEN Respond(p, 400)
                ELSE IF ~ParseDate(dated.date).ok
                THEN Respond(p, 400)
                ELSE /\ pc' = [pc EXCEPT ![p] = "hmsRLock"]
                     /\ UNCHANGED <<status, loc>>
    /\ UNCHANGED <<sheets, grid, nextId, server, sheetCache, templateSheetID, mux,
                   touched, lastWrite, cloneLog>>

\* handleMonthSheet: RLock; exists := sheetCache[monthSheetName]
HmsRLock(p) ==
    /\ UNCHANGED <<prVars, lcVars>>
    /\ pc[p] = "hmsRLock"
    /\ mux.writer = "none"
    /\ mux' = [mux EXCEPT !.readers = @ \cup {p}]
    /\ loc' = [loc EXCEPT ![p].exists = monthSheetName(p) \in sheetCache]
    /\ pc' = [pc EXCEPT ![p] = "hmsRUnlock"]
    /\ UNCHANGED <<sheets, grid, nextId, server, sheetCache, templateSheetID,
                   req, status, touched, lastWrite, cloneLog>>

\* handleMonthSheet: RUnlock; if exists { return nil }
HmsRUnlock(p) ==
    /\ UNCHANGED <<prVars, lcVars>>
    /\ pc[p] = "hmsRUnlock"
    /\ mux' = [mux EXCEPT !.readers = @ \ {p}]
    /\ IF loc[p].exists
       THEN AfterMonthSheet(p)
       ELSE /\ pc' = [pc EXCEPT ![p] = "hmsLock"]
            /\ UNCHANGED <<status, loc>>
    /\ UNCHANGED <<sheets, grid, nextId, server, sheetCache, templateSheetID,
                   req, touched, lastWrite, cloneLog>>

\* the second look at the cache, under the exclusive lock
hmsCachedNoRecheck(p) == FALSE

hmsCached(p) == monthSheetName(p) \in sheetCache

\* handleMonthSheet: Lock; defer Unlock; the double check
HmsLock(p) ==
    /\ UNCHANGED <<prVars, lcVars>>
    /\ pc[p] = "hmsLock"
    /\ mux = Unlocked
    /\ IF hmsCached(p)
       THEN /\ AfterMonthSheet(p)
            /\ UNCHANGED mux
       ELSE /\ mux' = [mux EXCEPT !.writer = p]
            /\ pc' = [pc EXCEPT ![p] = "cpCopy"]
            /\ UNCHANGED <<status, loc>>
    /\ UNCHANGED <<sheets, grid, nextId, server, sheetCache, templateSheetID,
                   req, touched, lastWrite, cloneLog>>

\* an error return on which the deferred Unlock does not run
CopyFailedKeepsLock(p) ==
    /\ UNCHANGED mux
    /\ cloneLog' = Append(cloneLog, [title |-> monthSheetName(p), ok |-> FALSE])
    /\ Respond(p, 500)

\* CopyAndPrepareSheet returned an error: handleMonthSheet unlocks and
\* returns it, the handler answers 500
CopyFailed(p) ==
    /\ mux' = Unlocked
    /\ cloneLog' = Append(cloneLog, [title |-> monthSheetName(p), ok |-> FALSE])
    /\ Respond(p, 500)

\* CopyAndPrepareSheet: Sheets.CopyTo of the template
CpCopy(p) ==
    /\ UNCHANGED <<prVars, lcVars>>
    /\ pc[p] = "cpCopy"
    /\ \E ok \in BOOLEAN, h \in {FALSE, sheets[IdxOfId(sheets, templateSheetID)].hidden} :
         IF ok
         THEN /\ sheets' = Append(sheets, [id |-> nextId,
                                           title |-> <<"Tabel", "copy", nextId>>,
                                           hidden |-> h])
              /\ grid' = [id \in DOMAIN grid \cup {nextId} |->
                            IF id = nextId THEN grid[templateSheetID] ELSE grid[id]]
              /\ nextId' = nextId + 1
              /\ loc' = [loc EXCEPT ![p].newSheetID = nextId]
              /\ pc' = [pc EXCEPT ![p] = "cpGet"]
              /\ touched' = [touched EXCEPT ![p] = @ \cup {<<"copy">>}]
              /\ UNCHANGED <<mux, status, cloneLog>>
         ELSE /\ CopyFailed(p)
              /\ UNCHANGED <<sheets, grid, nextId, touched>>
    /\ UNCHANGED <<server, sheetCache, templateSheetID, req, lastWrite>>

\* a Spreadsheets.Get after which the titles are not looked at
CpGetNoCheck(p) ==
    /\ UNCHANGED <<prVars, lcVars>>
    /\ pc[p] = "cpGet"
    /\ \E ok \in BOOLEAN :
         IF ok
         THEN /\ pc' = [pc EXCEPT ![p] = "cpBatch"]
              /\ UNCHANGED <<mux, status, loc, cloneLog>>
         ELSE CopyFailed(p)
    /\ UNCHANGED <<sheets, grid, nextId, server, sheetCache, templateSheetID,
                   req, touched, lastWrite>>

\* CopyAndPrepareSheet: Spreadsheets.Get and the check for the name
CpGet(p) ==
    /\ UNCHANGED <<prVars, lcVars>>
    /\ pc[p] = "cpGet"
    /\ \E ok \in BOOLEAN :
         IF ok /\ ~HasTitle(sheets, monthSheetName(p))
         THEN /\ pc' = [pc EXCEPT ![p] = "cpBatch"]
              /\ UNCHANGED <<mux, status, loc, cloneLog>>
         ELSE CopyFailed(p)
    /\ UNCHANGED <<sheets, grid, nextId, server, sheetCache, templateSheetID,
                   req, touched, lastWrite>>

\* CopyAndPrepareSheet: the BatchUpdate that renames the copy, hides the
\* template and stamps the caption
CpBatch(p) ==
    /\ UNCHANGED <<prVars, lcVars>>
    /\ pc[p] = "cpBatch"
    /\ \E ok \in BOOLEAN :
         IF ok
         THEN /\ sheets' = SetHidden(SetTitle(sheets, loc[p].newSheetID, monthSheetName(p)),
                                     templateSheetID, TRUE)
              /\ grid' = [grid EXCEPT ![loc[p].newSheetID] =
                            StampCaption(@, ParseDate(req[p].date))]
              /\ pc' = [pc EXCEPT ![p] = "cpClear"]
              /\ touched' = [touched EXCEPT ![p] = @ \cup {<<"rename">>}]
              /\ UNCHANGED <<mux, status, loc, cloneLog>>
         ELSE /\ CopyFailed(p)
              /\ UNCHANGED <<sheets, grid, touched>>
    /\ UNCHANGED <<nextId, server, sheetCache, templateSheetID, req, lastWrite>>

\* CopyAndPrepareSheet: Values.Clear of "<month title>!C4:AG17"
CpClear(p) ==
    /\ UNCHANGED <<prVars, lcVars>>
    /\ pc[p] = "cpClear"
    /\ \E ok \in BOOLEAN :
         IF ok
         THEN /\ grid' = [grid EXCEPT ![IdOfTitle(sheets, monthSheetName(p))] =
                            ClearRange(@, ClearBand)]
              /\ pc' = [pc EXCEPT ![p] = "cpEsvGet"]
              /\ touched' = [touched EXCEPT ![p] = @ \cup {<<"clear">>}]
              /\ UNCHANGED <<mux, status, loc, cloneLog>>
         ELSE /\ CopyFailed(p)
              /\ UNCHANGED <<grid, touched>>
    /\ UNCHANGED <<sheets, nextId, server, sheetCache, templateSheetID, req, lastWrite>>

\* CopyAndPrepareSheet -> ensureSheetVisible: Spreadsheets.Get and the plan
CpEsvGet(p) ==
    /\ UNCHANGED <<prVars, lcVars>>
    /\ pc[p] = "cpEsvGet"
    /\ \E ok \in BOOLEAN :
         LET plan == ensureSheetVisiblePlan(sheets, monthSheetName(p))
         IN  IF ok /\ plan.target # 0
             THEN /\ loc' = [loc EXCEPT ![p].hide = plan.hide, ![p].target = plan.target]
                  /\ pc' = [pc EXCEPT ![p] = "cpEsvBatch"]
                  /\ UNCHANGED <<mux, status, cloneLog>>
             ELSE CopyFailed(p)
    /\ UNCHANGED <<sheets, grid, nextId, server, sheetCache, templateSheetID,
                   req, touched, lastWrite>>

\* a handleMonthSheet that records the title whatever CopyAndPrepareSheet
\* returned
CpEsvBatchAlwaysCaches(p) ==
    /\ UNCHANGED <<prVars, lcVars>>
    /\ pc[p] = "cpEsvBatch"
    /\ sheetCache' = sheetCache \cup {monthSheetName(p)}
    /\ \E ok \in BOOLEAN :
         IF ok
         THEN /\ sheets' = ensureSheetVisibleApply(sheets, loc[p])
              /\ mux' = Unlocked
              /\ cloneLog' = Append(cloneLog, [title |-> monthSheetName(p), ok |-> TRUE])
              /\ touched' = [touched EXCEPT ![p] = @ \cup {<<"visibility">>, <<"cache">>}]
              /\ AfterMonthSheet(p)
         ELSE /\ CopyFailed(p)
              /\ UNCHANGED <<sheets, touched>>
    /\ UNCHANGED <<grid, nextId, server, templateSheetID, req, lastWrite>>

\* CopyAndPrepareSheet -> ensureSheetVisible: the BatchUpdate; on success
\* CopyAndPrepareSheet returns nil and handleMonthSheet records the title
CpEsvBatch(p) ==
    /\ UNCHANGED <<prVars, lcVars>>
    /\ pc[p] = "cpEsvBatch"
    /\ \E ok \in BOOLEAN :
         IF ok
         THEN /\ sheets' = ensureSheetVisibleApply(sheets, loc[p])
              /\ sheetCache' = sheetCache \cup {monthSheetName(p)}
              /\ mux' = Unlocked
              /\ cloneLog' = Append(cloneLog, [title |-> monthSheetName(p), ok |-> TRUE])
              /\ touched' = [touched EXCEPT ![p] = @ \cup {<<"visibility">>, <<"cache">>}]
              /\ AfterMonthSheet(p)
         ELSE /\ CopyFailed(p)
              /\ UNCHANGED <<sheets, sheetCache, touched>>
    /\ UNCHANGED <<grid, nextId, server, templateSheetID, req, lastWrite>>

\* appendTimesheetData -> ensureSheetVisible: Spreadsheets.Get and the plan
EsvGet(p) ==
    /\ UNCHANGED <<prVars, lcVars>>
    /\ pc[p] = "esvGet"
    /\ \E ok \in BOOLEAN :
         LET plan == ensureSheetVisiblePlan(sheets, monthSheetName(p))
         IN  IF ok /\ plan.target # 0
             THEN /\ loc' = [loc EXCEPT ![p].hide = plan.hide, ![p].target = plan.target]
                  /\ pc' = [pc EXCEPT ![p] = "esvBatch"]
                  /\ UNCHANGED status
             ELSE Respond(p, 500)
    /\ UNCHANGED <<sheets, grid, nextId, server, sheetCache, templateSheetID, mux,
                   req, touched, lastWrite, cloneLog>>

\* appendTimesheetData -> ensureSheetVisible: the BatchUpdate
EsvBatch(p) ==
    /\ UNCHANGED <<prVars, lcVars>>
    /\ pc[p] = "esvBatch"
    /\ \E ok \in BOOLEAN :
         IF ok
         THEN /\ sheets' = ensureSheetVisibleApply(sheets, loc[p])
              /\ touched' = [touched EXCEPT ![p] = @ \cup {<<"visibility">>}]
              /\ pc' = [pc EXCEPT ![p] = "find"]
              /\ UNCHANGED <<status, loc>>
         ELSE /\ Respond(p, 500)
              /\ UNCHANGED <<sheets, touched>>
    /\ UNCHANGED <<grid, nextId, server, sheetCache, templateSheetID, mux,
                   req, lastWrite, cloneLog>>

\* appendTimesheetData -> findTimesheetCell: the two Values.Get of the month's
\* sheet (its bands are written by nobody) and the scans; loc[p].cell keeps
\* what findTimesheetCell returned, the error included
Find(p) ==
    /\ UNCHANGED <<prVars, lcVars>>
    /\ pc[p] = "find"
    /\ \E ok \in BOOLEAN :
         LET found == findTimesheetCell(grid[IdOfTitle(sheets, monthSheetName(p))], req[p])
         IN  IF ok /\ found.err = ""
             THEN /\ loc' = [loc EXCEPT ![p].cell = found,
                                         ![p].read = IdOfTitle(sheets, monthSheetName(p))]
                  /\ pc' = [pc EXCEPT ![p] = "write"]
                  /\ UNCHANGED status
             ELSE /\ pc' = [pc EXCEPT ![p] = "done"]
                  /\ status' = [status EXCEPT ![p] = 500]
                  /\ loc' = [loc EXCEPT ![p] =
                              [NoLocals EXCEPT !.cell =
                                 IF ok THEN found ELSE NoCell("unable to retrieve")]]
    /\ UNCHANGED <<sheets, grid, nextId, server, sheetCache, templateSheetID, mux,
                   req, touched, lastWrite, cloneLog>>

\* the cell "<month title>!<colLetter><row>" as the remote store resolves it
WriteAddress(cell) == <<cell.row, LetterToColumn(cell.colLetter)>>

\* appendTimesheetData: Values.Update of the one cell with data.Hours
Write(p) ==
    /\ UNCHANGED <<prVars, lcVars>>
    /\ pc[p] = "write"
    /\ \E ok \in BOOLEAN :
         IF ok
         THEN LET title == monthSheetName(p)
                  addr  == WriteAddress(loc[p].cell)
                  key   == <<title, req[p].fullName, ParseDate(req[p].date).day>>
              IN  /\ grid' = [grid EXCEPT ![IdOfTitle(sheets, title)] =
                                UpdateRange(@, addr[1], addr[2], <<<<req[p].hours>>>>)]
                  /\ touched' = [touched EXCEPT ![p] = @ \cup {<<"cell", title, addr>>}]
                  /\ lastWrite' = [k \in DOMAIN lastWrite \cup {key} |->
                                     IF k = key THEN req[p].hours ELSE lastWrite[k]]
                  /\ Respond(p, 201)
         ELSE /\ Respond(p, 500)
              /\ UNCHANGED <<grid, touched, lastWrite>>
    /\ UNCHANGED <<sheets, nextId, server, sheetCache, templateSheetID, mux,
                   req, cloneLog>>

TsNext ==
    \/ InitSheetCache
    \/ \E p \in Handlers :
         \/ Receive(p)
         \/ HmsRLock(p)
         \/ HmsRUnlock(p)
         \/ HmsLock(p)
         \/ CpCopy(p)
         \/ CpGet(p)
         \/ CpBatch(p)
         \/ CpClear(p)
         \/ CpEsvGet(p)
         \/ CpEsvBatch(p)
         \/ EsvGet(p)
         \/ EsvBatch(p)
         \/ Find(p)
         \/ Write(p)


----------------------------------------------------------------------------
(* The production ledger: the sheet "Выпуск", columns A..G *)

\* strings.Split(s, "."), cur being the part in progress
RECURSIVE SplitDot(_, _)
SplitDot(s, cur) ==
    IF Len(s) = 0 THEN <<cur>>
    ELSE IF s[1] = "." THEN <<cur>> \o SplitDot(Tail(s), <<>>)
    ELSE SplitDot(Tail(s), Append(cur, s[1]))

\* convertDateFormat: DD.MM.YYYY -> YYYY-MM-DD, anything else as it is
convertDateFormat(dateStr) ==
    LET parts == SplitDot(dateStr, <<>>)
    IN  IF Len(parts) = 3
        THEN parts[3] \o <<"-">> \o parts[2] \o <<"-">> \o parts[1]
        ELSE dateStr

\* the less function of sort.Slice in appendProductionData
rowLess(rowI, rowJ) ==
    LET dateI == ParseDate(convertDateFormat(rowI[1]))
        dateJ == ParseDate(convertDateFormat(rowJ[1]))
    IN  IF ~dateI.ok \/ ~dateJ.ok THEN FALSE
        ELSE \/ dateI.year < dateJ.year
             \/ dateI.year = dateJ.year /\ dateI.month < dateJ.month
             \/ dateI.year = dateJ.year /\ dateI.month = dateJ.month
                /\ dateI.day < dateJ.day

\* sort.Slice on a slice of at most 12 rows is an insertion sort: x moves left
\* past every row it is less than
RECURSIVE insertionSortStep(_, _)
insertionSortStep(sorted, x) ==
    IF Len(sorted) > 0 /\ rowLess(x, sorted[Len(sorted)])
    THEN Append(insertionSortStep(SubSeq(sorted, 1, Len(sorted) - 1), x),
                sorted[Len(sorted)])
    ELSE Append(sorted, x)

RECURSIVE insertionSort(_)
insertionSort(rows) ==
    IF Len(rows) <= 1 THEN rows
    ELSE insertionSortStep(insertionSort(SubSeq(rows, 1, Len(rows) - 1)), rows[Len(rows)])

Reverse(rows) == [i \in 1..Len(rows) |-> rows[Len(rows) + 1 - i]]

\* sort.Slice(cleanedData, less): the orders it may leave.  Up to 12 rows it
\* is the insertion sort; a longer slice is partitioned around a pivot and
\* "the sort is not guaranteed to be stable": rows of which neither is less
\* than the other may come out in their order or in another one, here the
\* opposite one
sortSlice(rows) ==
    IF Len(rows) <= 12 THEN {insertionSort(rows)}
    ELSE {insertionSort(rows), insertionSort(Reverse(rows))}

\* the rows r keeps of existingData: len(row) > 0 && TrimSpace(row[0]) != ""
RECURSIVE cleanedData(_)
cleanedData(rows) ==
    IF Len(rows) = 0 THEN <<>>
    ELSE LET row == rows[1]
         IN  IF Len(row) > 0 /\ TrimSpace(row[1]) # <<>>
             THEN <<row>> \o cleanedData(Tail(rows))
             ELSE cleanedData(Tail(rows))

\* an empty row before every row whose date string differs from the one before
RECURSIVE withSeparators(_, _)
withSeparators(rows, prevDate) ==
    IF Len(rows) = 0 THEN <<>>
    ELSE LET currentDate == rows[1][1]
         IN  (IF prevDate # <<>> /\ currentDate # prevDate THEN <<<<>>>> ELSE <<>>)
             \o <<rows[1]>> \o withSeparators(Tail(rows), currentDate)

newRow(data) ==
    <<data.date, data.fullName, data.partAndOperation, data.totalParts,
      data.defective, data.goodParts, data.notes>>

\* the range "Выпуск!A:G" (c2 = 7) or "Выпуск!A:A" (c2 = 1): every row of the
\* sheet
Columns(g, c2) ==
    [r1 |-> 1, c1 |-> 1, r2 |-> SetMax({a[1] : a \in DOMAIN g} \cup {1}), c2 |-> c2]

\* appendProductionData of main.go between its Values.Get (which returned
\* values) and its Values.Update: the matrix finalData, one for every order
\* the sort may leave
finalData(values, data) ==
    LET header   == IF Len(values) > 0 THEN values[1] ELSE <<>>
        existing == IF Len(values) > 0 THEN Tail(values) ELSE <<>>
    IN  {<<header>> \o withSeparators(sorted, <<>>) :
           sorted \in sortSlice(Append(cleanedData(existing), newRow(data)))}

\* the index in values, counted from 0, of the last row with a first cell
RECURSIVE findLastNonEmptyIndex(_, _)
findLastNonEmptyIndex(values, i) ==
    IF i = 0 THEN 0
    ELSE IF Len(values[i]) > 0 /\ TrimSpace(values[i][1]) # <<>> THEN i - 1
    ELSE findLastNonEmptyIndex(values, i - 1)

\* findLastNonEmptyRow on the values of "Выпуск!A:A"
RECURSIVE findLastNonEmptyRow(_, _)
findLastNonEmptyRow(values, i) ==
    IF i = 0 THEN 0
    ELSE IF Len(values[i]) > 0 /\ TrimSpace(values[i][1]) # <<>> THEN i
    ELSE findLastNonEmptyRow(values, i - 1)

\* the check of productionHandler on the required fields, without the trim
requiredMissingUntrimmed(data) ==
    \/ data.fullName = <<>>
    \/ data.partAndOperation = <<>>
    \/ data.totalParts = <<>>

\* productionHandler: TrimSpace(FullName) == "" || TrimSpace(PartAndOperation)
\* == "" || TrimSpace(TotalParts) == ""
requiredMissing(data) ==
    \/ TrimSpace(data.fullName) = <<>>
    \/ TrimSpace(data.partAndOperation) = <<>>
    \/ TrimSpace(data.totalParts) = <<>>

----------------------------------------------------------------------------
(* Inputs of the production path *)

ProdDates == {FormatDate([year |-> 2024, month |-> 3, day |-> 5]),
              FormatDate([year |-> 2024, month |-> 3, day |-> 4]),
              <<>>}

ProductionRequests ==
    [date : ProdDates,
     fullName : {<<"A">>, <<" ">>},
     partAndOperation : {<<"P">>},
     totalParts : {<<"2", "0">>, <<>>},
     defective : {<<"1">>},
     goodParts : {<<"1", "9">>, <<>>},
     notes : {<<>>}]

NoProduction == [date |-> <<>>, fullName |-> <<>>, partAndOperation |-> <<>>,
                 totalParts |-> <<>>, defective |-> <<>>, goodParts |-> <<>>,
                 notes |-> <<>>]

NoProdLocals == [data |-> NoProduction, finalData |-> <<>>, targetRow |-> 0]

HeaderRow == <<<<"D">>, <<"F">>, <<"P">>, <<"T">>, <<"B">>, <<"G">>, <<"N">>>>

StoredRow == <<FormatDate([year |-> 2024, month |-> 3, day |-> 5]), <<"B">>, <<"P">>,
               <<"8">>, <<"2">>, <<"6">>>>

\* rows typed into the sheet by hand: a blank first cell, a date that is no
\* date, a date written DD.MM.YYYY, and the day after StoredRow's
BlankDateRow == <<<<" ">>, <<"n">>>>

UndatedRow == <<<<"n", "/", "a">>, <<"C">>, <<"P">>, <<"3">>, <<"0">>, <<"3">>>>

DottedRow == <<<<"0", "5", ".", "0", "3", ".", "2", "0", "2", "4">>, <<"C">>, <<"P">>,
               <<"3">>, <<"0">>, <<"3">>>>

\* twelve records of one day, one under the other
SameDayRows == [i \in 1..12 |-> <<StoredRow[1], <<Alphabet[i]>>, <<"P">>>>]

NextDayRow == <<FormatDate([year |-> 2024, month |-> 3, day |-> 6]), <<"C">>, <<"P">>,
                <<"3">>, <<"0">>, <<"3">>>>

\* the ledgers the server may find: the header alone, or the header and
\* records below it
InitialLedgers ==
    {UpdateRange(EmptyGrid, 1, 1, <<HeaderRow>>),
     UpdateRange(EmptyGrid, 1, 1, <<HeaderRow, StoredRow>>),
     UpdateRange(EmptyGrid, 1, 1, <<HeaderRow, StoredRow, BlankDateRow>>),
     UpdateRange(EmptyGrid, 1, 1, <<HeaderRow, StoredRow, UndatedRow>>),
     UpdateRange(EmptyGrid, 1, 1, <<HeaderRow, DottedRow, <<>>, NextDayRow>>),
     UpdateRange(EmptyGrid, 1, 1, <<HeaderRow>> \o SameDayRows)}

ProdWriters == {"reflow", "append"}   \* main.go | internal/models/production.go

PrInit ==
    /\ ledger \in InitialLedgers
    /\ writer \in ProdWriters
    /\ ppc = [p \in Handlers |-> "idle"]
    /\ preq = [p \in Handlers |-> NoProduction]
    /\ ploc = [p \in Handlers |-> NoProdLocals]
    /\ pstatus = [p \in Handlers |-> 0]
    /\ ledgerOps = [p \in Handlers |-> <<>>]

----------------------------------------------------------------------------
(* /submit-production: productionHandler with appendProductionData (main.go)
   or models.AppendProductionData.  One step per remote call. *)

PRespond(p, code) ==
    /\ ppc' = [ppc EXCEPT ![p] = "done"]
    /\ pstatus' = [pstatus EXCEPT ![p] = code]

Called(p, call, ok) ==
    ledgerOps' = [ledgerOps EXCEPT ![p] = Append(@, [call |-> call, ok |-> ok])]

\* productionHandler up to the call of the ledger writer
PReceive(p) ==
    /\ UNCHANGED <<shVars, lcVars>>
    /\ server = "serving"
    /\ ppc[p] = "idle"
    /\ \E body \in ProductionRequests, now \in Clock :
         /\ preq' = [preq EXCEPT ![p] = body]
         /\ IF requiredMissing(body)
            THEN /\ PRespond(p, 400)
                 /\ UNCHANGED ploc
            ELSE /\ ploc' = [ploc EXCEPT ![p].data =
                               IF body.date = <<>>
                               THEN [body EXCEPT !.date = FormatDate(now)] ELSE body]
                 /\ ppc' = [ppc EXCEPT ![p] = IF writer = "reflow" THEN "rGet" ELSE "aFind"]
                 /\ UNCHANGED pstatus
    /\ UNCHANGED <<server, ledger, writer, ledgerOps>>

\* appendProductionData: Values.Get of A:G, then the matrix is built
RGet(p) ==
    /\ UNCHANGED <<shVars, lcVars>>
    /\ server = "serving"
    /\ ppc[p] = "rGet"
    /\ \E ok \in BOOLEAN :
         /\ Called(p, "get", ok)
         /\ IF ok
            THEN /\ \E m \in finalData(GetRange(ledger, Columns(ledger, 7)), ploc[p].data) :
                        ploc' = [ploc EXCEPT ![p].finalData = m]
                 /\ ppc' = [ppc EXCEPT ![p] = "rUpdate"]
                 /\ UNCHANGED pstatus
            ELSE /\ PRespond(p, 500)
                 /\ UNCHANGED ploc
    /\ UNCHANGED <<server, ledger, writer, preq>>

\* a Values.Update whose error is not returned: the format request follows
RUpdateContinues(p) ==
    /\ UNCHANGED <<shVars, lcVars>>
    /\ server = "serving"
    /\ ppc[p] = "rUpdate"
    /\ \E ok \in BOOLEAN :
         /\ Called(p, "update", ok)
         /\ ledger' = IF ok THEN UpdateRange(ledger, 1, 1, ploc[p].finalData) ELSE ledger
         /\ ppc' = [ppc EXCEPT ![p] = "rSheetID"]
         /\ UNCHANGED pstatus
    /\ UNCHANGED <<server, writer, preq, ploc>>

\* appendProductionData: Values.Update of "A1:G" with finalData
RUpdate(p) ==
    /\ UNCHANGED <<shVars, lcVars>>
    /\ server = "serving"
    /\ ppc[p] = "rUpdate"
    /\ \E ok \in BOOLEAN :
         /\ Called(p, "update", ok)
         /\ IF ok
            THEN /\ ledger' = UpdateRange(ledger, 1, 1, ploc[p].finalData)
                 /\ ppc' = [ppc EXCEPT ![p] = "rSheetID"]
                 /\ UNCHANGED pstatus
            ELSE /\ PRespond(p, 500)
                 /\ UNCHANGED ledger
    /\ UNCHANGED <<server, writer, preq, ploc>>

\* getSheetID(config.ProductionSheet): Spreadsheets.Get; log.Fatalf when it
\* fails or the sheet is not listed
getSheetID(p) ==
    /\ UNCHANGED <<shVars, lcVars>>
    /\ server = "serving"
    /\ ppc[p] = "rSheetID"
    /\ \E ok \in BOOLEAN :
         /\ Called(p, "sheetId", ok)
         /\ IF ok /\ HasTitle(sheets, ProductionSheet)
            THEN /\ ppc' = [ppc EXCEPT ![p] = "rFormat"]
                 /\ UNCHANGED server
            ELSE /\ server' = "dead"
                 /\ UNCHANGED ppc
    /\ UNCHANGED <<ledger, writer, preq, ploc, pstatus>>

\* appendProductionData: the BatchUpdate with the RepeatCell format request
RFormat(p) ==
    /\ UNCHANGED <<shVars, lcVars>>
    /\ server = "serving"
    /\ ppc[p] = "rFormat"
    /\ \E ok \in BOOLEAN :
         /\ Called(p, "format", ok)
         /\ PRespond(p, IF ok THEN 201 ELSE 500)
    /\ UNCHANGED <<server, ledger, writer, preq, ploc>>

\* models.AppendProductionData: findLastNonEmptyRow (Values.Get of A:A)
AFind(p) ==
    /\ UNCHANGED <<shVars, lcVars>>
    /\ server = "serving"
    /\ ppc[p] = "aFind"
    /\ \E ok \in BOOLEAN :
         /\ Called(p, "get", ok)
         /\ IF ok
            THEN LET values == GetRange(ledger, Columns(ledger, 1))
                 IN  /\ ploc' = [ploc EXCEPT ![p].targetRow =
                                   findLastNonEmptyRow(values, Len(values)) + 1]
                     /\ ppc' = [ppc EXCEPT ![p] = "aUpdate"]
                     /\ UNCHANGED pstatus
            ELSE /\ PRespond(p, 500)
                 /\ UNCHANGED ploc
    /\ UNCHANGED <<server, ledger, writer, preq>>

\* models.AppendProductionData: Values.Update of "A<row>:G<row>"
AUpdate(p) ==
    /\ UNCHANGED <<shVars, lcVars>>
    /\ server = "serving"
    /\ ppc[p] = "aUpdate"
    /\ \E ok \in BOOLEAN :
         /\ Called(p, "update", ok)
         /\ IF ok
            THEN /\ ledger' = UpdateRange(ledger, ploc[p].targetRow, 1,
                                          <<newRow(ploc[p].data)>>)
                 /\ PRespond(p, 201)
            ELSE /\ PRespond(p, 500)
                 /\ UNCHANGED ledger
    /\ UNCHANGED <<server, writer, preq, ploc>>

PrNext ==
    \E p \in Handlers :
        \/ PReceive(p)
        \/ RGet(p)
        \/ RUpdate(p)
        \/ getSheetID(p)
        \/ RFormat(p)
        \/ AFind(p)
        \/ AUpdate(p)

----------------------------------------------------------------------------
(* findTimesheetCell on its own, over the contents of the two bands *)

MaxNames == 2    \* rows of the name band that may be filled, from B4 down
MaxDays == 2     \* cells of the day band that may be filled, from C3 right

NameCells == {<<>>, <<" ", "A", " ">>, <<"B">>}

DayCells == {<<>>, <<"5">>, <<" ", "0", "6">>, <<"x">>}

\* band contents: the first MaxNames name rows and the last one, the first
\* MaxDays day cells and the last one
BandGrids ==
    LET nameRows == (NameBand.r1..(NameBand.r1 + MaxNames - 1)) \cup {NameBand.r2}
        dayCols  == (DayBand.c1..(DayBand.c1 + MaxDays - 1)) \cup {DayBand.c2}
    IN  {SetCells(SetCells(EmptyGrid, [a \in {<<r, NameBand.c1>> : r \in nameRows} |-> n[a[1]]]),
                  [a \in {<<DayBand.r1, c>> : c \in dayCols} |-> d[a[2]]]) :
           n \in [nameRows -> NameCells], d \in [dayCols -> DayCells]}

LocateRequests ==
    [date : {FormatDate([year |-> 2024, month |-> 3, day |-> 5]),
             FormatDate([year |-> 2024, month |-> 3, day |-> 6]),
             FormatDate([year |-> 2024, month |-> 3, day |-> 7])},
     fullName : {<<"A">>, <<"B">>, <<"Z">>, <<"A", " ">>},
     hours : {<<"8">>}]

\* columnToLetter not called
CtQuiet ==
    /\ ctCol = 0
    /\ ctLetter = <<"?">>

NoEsv == [rev |-> "none", sheetName |-> <<>>, sheets |-> <<>>, ret |-> "none"]

NoRetry == [fn |-> "none", values |-> <<>>, i |-> 0, calls |-> <<>>, rows |-> <<>>,
            ret |-> "none"]

\* no function of an earlier revision called
RevQuiet ==
    /\ esv = NoEsv
    /\ retry = NoRetry

LcInit ==
    /\ lcGrid \in BandGrids
    /\ lcReq \in LocateRequests
    /\ lcOut = NoCell("pending")
    /\ CtQuiet
    /\ RevQuiet

\* the call findTimesheetCell(data), both Values.Get succeeding
Locate ==
    /\ UNCHANGED <<tsVars, prVars>>
    /\ lcOut = NoCell("pending")
    /\ lcOut' = findTimesheetCell(lcGrid, lcReq)
    /\ UNCHANGED <<lcGrid, lcReq, ctCol, ctLetter, esv, retry>>

LcNext == Locate

----------------------------------------------------------------------------
(* columnToLetter on its own, over the column numbers 1..MaxColumn *)

MaxColumn == 702    \* the last column with two letters, ZZ

CtInit ==
    /\ lcGrid = EmptyGrid
    /\ lcReq = NoRequest
    /\ lcOut = NoCell("")
    /\ ctCol \in 1..MaxColumn
    /\ ctLetter = <<"?">>
    /\ RevQuiet

\* the call columnToLetter(col)
Letter ==
    /\ UNCHANGED <<tsVars, prVars>>
    /\ ctLetter = <<"?">>
    /\ ctLetter' = columnToLetter(ctCol)
    /\ UNCHANGED <<lcGrid, lcReq, lcOut, ctCol, esv, retry>>

CtNext == Letter

----------------------------------------------------------------------------
(* ensureSheetVisible on its own, in the revisions main.go and unnamed/part_007 *)

LcIdle ==
    /\ lcGrid = EmptyGrid
    /\ lcReq = NoRequest
    /\ lcOut = NoCell("")
    /\ CtQuiet

EvInit ==
    /\ LcIdle
    /\ retry = NoRetry
    /\ esv \in [rev : {"main.go", "part_007"},
                sheetName : {getMonthSheetName(March), TimesheetSheet,
                             getMonthSheetName([March EXCEPT !.month = 4])},
                sheets : InitialSheetLists,
                ret : {"pending"}]

\* the call ensureSheetVisible(srv, spreadsheetID, sheetName)
EnsureSheetVisible ==
    /\ UNCHANGED <<tsVars, prVars>>
    /\ esv.ret = "pending"
    /\ \E listed \in BOOLEAN, updated \in BOOLEAN :
         LET plan == IF esv.rev = "main.go"
                     THEN ensureSheetVisiblePlan(esv.sheets, esv.sheetName)
                     ELSE ensureSheetVisiblePlan007(esv.sheets, esv.sheetName)
         IN  IF listed /\ plan.target # 0 /\ updated
             THEN esv' = [esv EXCEPT !.ret = "nil",
                                     !.sheets = IF esv.rev = "main.go"
                                                THEN ensureSheetVisibleApply(esv.sheets, plan)
                                                ELSE ensureSheetVisibleApply007(esv.sheets, plan)]
             ELSE esv' = [esv EXCEPT !.ret = "error"]
    /\ UNCHANGED <<lcGrid, lcReq, lcOut, ctCol, ctLetter, retry>>

----------------------------------------------------------------------------
(* The retrying append of the revision unnamed/part_005 *)

MaxAttempts == 3

\* the condition of the loop: for i := 0; i < 3; i++
moreAttemptsInclusive(i) == i <= MaxAttempts

moreAttempts(i) == i < MaxAttempts

\* the row each function appends: the fields and the time of the call
RetryCalls ==
    {[fn |-> "appendProductionData", values |-> Append(newRow(d), now)] :
        d \in {b \in ProductionRequests : ~requiredMissing(b) /\ b.date # <<>>},
        now \in Clock}
    \cup
    {[fn |-> "appendTimesheetData", values |-> <<d.date, d.fullName, d.hours, now>>] :
        d \in {b \in TimesheetRequests : b.date # <<>> /\ ParseFloat(b.hours).ok},
        now \in Clock}

RtInit ==
    /\ LcIdle
    /\ esv = NoEsv
    /\ \E c \in RetryCalls :
         retry = [fn |-> c.fn, values |-> c.values, i |-> 0, calls |-> <<>>,
                  rows |-> <<>>, ret |-> "running"]

\* one turn of the loop: Values.Append, return nil when it succeeded, else
\* sleep and i++; after the last turn the error is returned.  A call that
\* returned an error may have been applied all the same
Attempt ==
    /\ UNCHANGED <<tsVars, prVars>>
    /\ retry.ret = "running"
    /\ moreAttempts(retry.i)
    /\ \E ok \in BOOLEAN, applied \in BOOLEAN :
         retry' = [retry EXCEPT
                     !.calls = Append(@, ok),
                     !.rows = IF ok \/ applied THEN Append(@, retry.values) ELSE @,
                     !.i = IF ok THEN @ ELSE @ + 1,
                     !.ret = IF ok THEN "nil"
                             ELSE IF moreAttempts(retry.i + 1) THEN "running"
                             ELSE "error"]
    /\ UNCHANGED <<lcGrid, lcReq, lcOut, ctCol, ctLetter, esv>>

----------------------------------------------------------------------------
(* Specifications *)

\* the parts of the state a specification does not exercise stay as built
TsQuiet ==
    /\ sheets = <<ProductionTab, TemplateTab(FALSE)>>
    /\ grid = [id \in {ProductionTab.id, TemplateTab(FALSE).id} |->
                 IF id = ProductionTab.id THEN EmptyGrid ELSE TemplateGrid]
    /\ nextId = TemplateTab(FALSE).id + 1
    /\ server = "serving"
    /\ sheetCache = {ProductionSheet, TimesheetSheet}
    /\ templateSheetID = TemplateTab(FALSE).id
    /\ TsIdle

PrQuiet ==
    /\ ledger = EmptyGrid
    /\ writer = "reflow"
    /\ ppc = [p \in Handlers |-> "idle"]
    /\ preq = [p \in Handlers |-> NoProduction]
    /\ ploc = [p \in Handlers |-> NoProdLocals]
    /\ pstatus = [p \in Handlers |-> 0]
    /\ ledgerOps = [p \in Handlers |-> <<>>]

LcQuiet ==
    /\ lcGrid = EmptyGrid
    /\ lcReq = NoRequest
    /\ lcOut = NoCell("")
    /\ CtQuiet
    /\ RevQuiet

\* /submit-timesheet
Init == TsInit /\ PrQuiet /\ LcQuiet

Next == TsNext

Spec == Init /\ [][Next]_vars

\* /submit-production
InitProd == TsQuiet /\ PrInit /\ LcQuiet

NextProd == PrNext

SpecProd == InitProd /\ [][NextProd]_vars

\* findTimesheetCell
InitLocate == TsQuiet /\ PrQuiet /\ LcInit

NextLocate == LcNext

SpecLocate == InitLocate /\ [][NextLocate]_vars

\* columnToLetter
InitLetters == TsQuiet /\ PrQuiet /\ CtInit

NextLetters == CtNext

SpecLetters == InitLetters /\ [][NextLetters]_vars

\* ensureSheetVisible
InitVisible == TsQuiet /\ PrQuiet /\ EvInit

NextVisible == EnsureSheetVisible

SpecVisible == InitVisible /\ [][NextVisible]_vars

\* the retrying append
InitRetry == TsQuiet /\ PrQuiet /\ RtInit

NextRetry == Attempt

SpecRetry == InitRetry /\ [][NextRetry]_vars


----------------------------------------------------------------------------
(* Properties of /submit-timesheet (specification Spec) *)

CopyPcs == {"cpCopy", "cpGet", "cpBatch", "cpClear", "cpEsvGet", "cpEsvBatch"}

\* handler p is inside CopyAndPrepareSheet
InCopy(p) == pc[p] \in CopyPcs

\* CopyAndPrepareSheet has returned nil for title
ClonedOk(title) ==
    \E i \in 1..Len(cloneLog) : cloneLog[i].title = title /\ cloneLog[i].ok

\* the sheet titled title was in the spreadsheet when the server started
ExistedAtStart(title) ==
    \E i \in 1..Len(sheets), h \in BOOLEAN :
        sheets[i].id = MarchTab(h).id /\ sheets[i].title = title

HoursCells(p) == {t \in touched[p] : t[1] = "cell"}

\* the rows of the name band holding name, the columns of the day band holding
\* day, read off the cells
NameRows(g, name) ==
    {r \in NameBand.r1..NameBand.r2 :
        /\ Cell(g, r, NameBand.c1) # <<>>
        /\ TrimSpace(Cell(g, r, NameBand.c1)) = name}

DayCols(g, day) ==
    {c \in DayBand.c1..DayBand.c2 :
        LET v == Atoi(TrimSpace(Cell(g, DayBand.r1, c)))
        IN  v.ok /\ v.val = day}

MonthGrid(p) == grid[IdOfTitle(sheets, monthSheetName(p))]

NamePresent(p) == NameRows(MonthGrid(p), req[p].fullName) # {}

DayPresent(p) == DayCols(MonthGrid(p), ParseDate(req[p].date).day) # {}

NotFoundErrors == {"full name not found", "day not found"}

\* C1: of the handlers that run handleMonthSheet at one time for a month that
\* is not cached, one clones the template; once a clone has succeeded nobody
\* enters CopyAndPrepareSheet for that title again, a handler that waited for
\* the lock returns nil from handleMonthSheet having touched nothing, and no
\* two sheets ever carry the same title.
CloneOnceState ==
    /\ \A i, j \in 1..Len(sheets) : sheets[i].title = sheets[j].title => i = j
    /\ \A i, j \in 1..Len(cloneLog) :
         (i < j /\ cloneLog[i].ok) => cloneLog[j].title # cloneLog[i].title
    /\ \A p \in Handlers : InCopy(p) => ~ClonedOk(monthSheetName(p))

CloneOnceStep ==
    \A p \in Handlers :
        (pc[p] = "hmsLock" /\ pc'[p] # "hmsLock" /\ ClonedOk(monthSheetName(p)))
            => /\ pc'[p] \in {"esvGet", "done"}
               /\ status'[p] # 500
               /\ touched'[p] = touched[p]
               /\ cloneLog' = cloneLog

CloneOnce == []CloneOnceState /\ [][CloneOnceStep]_vars

\* one handler has cloned the month's sheet while the other, which missed the
\* cache too, waits for the lock
CloneOnceWitness ==
    \E p, q \in Handlers :
        /\ p # q
        /\ <<"cache">> \in touched[p]
        /\ pc[q] = "hmsLock"
        /\ monthSheetName(q) = monthSheetName(p)

\* C2: a handler never enters CopyAndPrepareSheet for a month whose sheet was
\* in the spreadsheet at start or was provisioned by this process.
NoCloneOfExistingMonth ==
    \A p \in Handlers :
        InCopy(p) => /\ ~ExistedAtStart(monthSheetName(p))
                     /\ ~ClonedOk(monthSheetName(p))

\* C4: a request whose name or day is not in the bands gets no address and no
\* hours cell: findTimesheetCell's error comes with an empty address, the
\* handler answers 500, and every hours cell written belongs to a request
\* whose name and day are in the bands.
AbsentState ==
    \A p \in Handlers :
        /\ (pc[p] = "write" \/ HoursCells(p) # {}) => (NamePresent(p) /\ DayPresent(p))
        /\ loc[p].cell.err \in NotFoundErrors
             => /\ pc[p] = "done" /\ status[p] = 500
                /\ HoursCells(p) = {}
                /\ loc[p].cell = NoCell(loc[p].cell.err)

AbsentStep ==
    \A p \in Handlers :
        (pc[p] = "find" /\ pc'[p] # "find" /\ ~(NamePresent(p) /\ DayPresent(p)))
            => /\ pc'[p] = "done" /\ status'[p] = 500
               /\ loc'[p].cell.err \in NotFoundErrors \cup {"unable to retrieve"}
               /\ grid' = grid

AbsentIsAnError == []AbsentState /\ [][AbsentStep]_vars

\* findTimesheetCell has reported a name or a day that is not in the bands
AbsentIsAnErrorWitness ==
    \E p, q \in Handlers :
        /\ loc[p].cell.err = "full name not found"
        /\ loc[q].cell.err = "day not found"
        /\ status[p] = 500 /\ status[q] = 500

\* the cell the bands of g give to name and day
DirectAddress(g, name, day) == <<SetMin(NameRows(g, name)), SetMin(DayCols(g, day))>>

\* C5: the cell at the employee's row and the day's column of the month's
\* sheet holds the hours of the submission whose write was applied last; a
\* submission answered 201 wrote that cell and no other: the step that
\* applies its write changes no other cell of any sheet.
LastWriteWinsState ==
    /\ \A key \in DOMAIN lastWrite :
         LET g == grid[IdOfTitle(sheets, key[1])]
             a == DirectAddress(g, key[2], key[3])
         IN  Cell(g, a[1], a[2]) = lastWrite[key]
    /\ \A p \in Handlers :
         IF status[p] = 201
         THEN HoursCells(p) =
                {<<"cell", monthSheetName(p),
                   DirectAddress(MonthGrid(p), req[p].fullName, ParseDate(req[p].date).day)>>}
         ELSE HoursCells(p) = {}

LastWriteWinsStep ==
    \A p \in Handlers :
        (pc[p] = "write" /\ pc'[p] = "done")
            => \A id \in DOMAIN grid :
                 \A a \in DOMAIN grid[id] \cup DOMAIN grid'[id] :
                   Cell(grid'[id], a[1], a[2]) # Cell(grid[id], a[1], a[2])
                     => /\ status'[p] = 201
                        /\ id = IdOfTitle(sheets, monthSheetName(p))
                        /\ a = DirectAddress(MonthGrid(p), req[p].fullName,
                                             ParseDate(req[p].date).day)

LastWriteWins == []LastWriteWinsState /\ [][LastWriteWinsStep]_vars

\* two submissions for one employee and date, with different hours, were both
\* answered 201
LastWriteWinsWitness ==
    \E p, q \in Handlers :
        /\ p # q
        /\ status[p] = 201 /\ status[q] = 201
        /\ req[p].fullName = req[q].fullName
        /\ req[p].date = req[q].date
        /\ req[p].hours # req[q].hours

\* hours is a number below 0 or above 24
HoursOutOfRange(h) ==
    LET v == ParseFloat(h) IN v.ok /\ (v.val10 < 0 \/ v.val10 > 240)

\* C8: a request whose hours is a number outside 0..24 is not answered 201 and
\* writes no hours cell.
OutOfRangeHoursRejected ==
    \A p \in Handlers :
        HoursOutOfRange(req[p].hours) => (status[p] # 201 /\ HoursCells(p) = {})

\* C10: a request answered 400 made no remote mutation and no cache write.
BadRequestTouchesNothing ==
    \A p \in Handlers : status[p] = 400 => touched[p] = {}

----------------------------------------------------------------------------
(* Properties of findTimesheetCell (specification SpecLocate) *)

\* C3: when the name is in the name band and the day in the day band,
\* findTimesheetCell returns the first row holding the name (4 + its index in
\* the band), the first column holding the day (3 + its index), and the
\* letters of that column; the band cells at the returned address, read as the
\* spreadsheet reads the letters, hold the name and the day.
LocateAgrees ==
    LET day  == ParseDate(lcReq.date).day
        rows == NameRows(lcGrid, lcReq.fullName)
        cols == DayCols(lcGrid, day)
    IN  (lcOut # NoCell("pending") /\ rows # {} /\ cols # {})
          => /\ lcOut.err = ""
             /\ lcOut.row = NameBand.r1 + (SetMin(rows) - NameBand.r1)
             /\ lcOut.col = DayBand.c1 + (SetMin(cols) - DayBand.c1)
             /\ lcOut.colLetter = columnToLetter(lcOut.col)
             /\ TrimSpace(Cell(lcGrid, lcOut.row, NameBand.c1)) = lcReq.fullName
             /\ Atoi(TrimSpace(Cell(lcGrid, DayBand.r1, LetterToColumn(lcOut.colLetter))))
                  = [ok |-> TRUE, val |-> day]

\* a name held by two rows and a day that is not in the first cell were located
LocateAgreesWitness ==
    /\ lcOut.err = ""
    /\ Cardinality(NameRows(lcGrid, lcReq.fullName)) > 1
    /\ lcOut.col > DayBand.c1

----------------------------------------------------------------------------
(* Properties of /submit-production (specification SpecProd) *)

LedgerRow(r) == [c \in 1..7 |-> Cell(ledger, r, c)]

\* the rows of the ledger that hold exactly row
RowsHolding(row) == {r \in {a[1] : a \in DOMAIN ledger} : LedgerRow(r) = row}

\* C6: every submission answered 201 has its record in the ledger, as many
\* times as it was submitted and answered 201.
StoredRecordsKept ==
    \A p \in Handlers :
        pstatus[p] = 201
          => Cardinality(RowsHolding(newRow(ploc[p].data)))
               >= Cardinality({q \in Handlers :
                                 pstatus[q] = 201 /\ ploc[q].data = ploc[p].data})

\* C7: the row of every submission answered 201 holds in column F the number
\* column D minus column E.
GoodPartsComputed ==
    \A p \in Handlers :
        pstatus[p] = 201
          => \A r \in RowsHolding(newRow(ploc[p].data)) :
               Atoi(Cell(ledger, r, 6)) =
                 [ok |-> TRUE,
                  val |-> Atoi(Cell(ledger, r, 4)).val - Atoi(Cell(ledger, r, 5)).val]

RequiredFields == {"fullName", "partAndOperation", "totalParts"}

RequiredEmpty(body) == \E f \in RequiredFields : TrimSpace(body[f]) = <<>>

\* the remote calls of one run of the ledger writer
WriterCalls ==
    IF writer = "reflow" THEN <<"get", "update", "sheetId", "format">>
    ELSE <<"get", "update">>

\* the writer made all its calls and each succeeded: it returned nil
WriterReturnedNil(p) ==
    /\ Len(ledgerOps[p]) = Len(WriterCalls)
    /\ \A i \in 1..Len(ledgerOps[p]) :
         ledgerOps[p][i] = [call |-> WriterCalls[i], ok |-> TRUE]

\* the writer stopped at a failed call and returned its error
WriterReturnedError(p) ==
    LET n == Len(ledgerOps[p])
    IN  n > 0 /\ ~ledgerOps[p][n].ok /\ ledgerOps[p][n].call # "sheetId"

ReflowFailureAnswered ==
    writer = "reflow"
      => /\ server = "serving"
         /\ \A p \in Handlers :
              (Len(ledgerOps[p]) > 0 /\ ~ledgerOps[p][Len(ledgerOps[p])].ok)
                => pstatus[p] = 500

----------------------------------------------------------------------------
(* Properties of the start of the server (specification Spec) *)

\* C15: when initSheetCache has returned and no request has been served yet,
\* the cache holds the title of every sheet of the spreadsheet.
CacheHoldsEverySheet ==
    (server = "serving" /\ \A p \in Handlers : pc[p] = "idle")
      => Titles(sheets) \subseteq sheetCache

----------------------------------------------------------------------------
(* Properties of columnToLetter (specification SpecLetters) *)

Letters == {Alphabet[i] : i \in 1..26}

\* C12: for every column number n of 1..MaxColumn, columnToLetter(n) is a
\* non-empty string over A..Z that the spreadsheet reads back as n, it is
\* built in at most n turns of the loop, no other number of the range gives
\* the same letters, and 1, 26, 27, 702 give A, Z, AA, ZZ.
LettersInverse ==
    ctLetter # <<"?">>
      => /\ Len(ctLetter) >= 1 /\ Len(ctLetter) <= ctCol
         /\ \A i \in 1..Len(ctLetter) : ctLetter[i] \in Letters
         /\ LetterToColumn(ctLetter) = ctCol
         /\ \A m \in 1..MaxColumn : m # ctCol => columnToLetter(m) # ctLetter
         /\ ctCol = 1 => ctLetter = <<"A">>
         /\ ctCol = 26 => ctLetter = <<"Z">>
         /\ ctCol = 27 => ctLetter = <<"A", "A">>
         /\ ctCol = 702 => ctLetter = <<"Z", "Z">>

\* the letters of the last two-letter column have been computed
LettersInverseWitness == ctCol = 702 /\ ctLetter = <<"Z", "Z">>

----------------------------------------------------------------------------
(* The sheet of one timesheet request (specification Spec) *)

\* the title "Табель <month> <year>" of the month of date d
MonthTitle(d) == <<"Tabel", monthNames[d.month], d.year>>

\* between the lookup and the write of handler p: the sheet whose bands were
\* read carries the title of the request's month and year, which every day of
\* that month gives too
OneSheetState ==
    \A p \in Handlers :
        pc[p] = "write"
          => LET d == ParseDate(req[p].date)
             IN  /\ loc[p].read \in {sh.id : sh \in {sheets[i] : i \in DOMAIN sheets}}
                 /\ sheets[IdxOfId(sheets, loc[p].read)].title = MonthTitle(d)
                 /\ \A day \in 1..DaysIn(d.year, d.month) :
                        getMonthSheetName([d EXCEPT !.day = day]) = MonthTitle(d)

\* the write of handler p changes no sheet but the one that was read
OneSheetStep ==
    \A p \in Handlers :
        (pc[p] = "write" /\ pc'[p] = "done")
          => /\ DOMAIN grid' = DOMAIN grid
             /\ \A id \in DOMAIN grid : grid'[id] # grid[id] => id = loc[p].read
             /\ status'[p] = 201
                  => Cell(grid'[loc[p].read], loc[p].cell.row, loc[p].cell.col)
                       = req[p].hours

\* C13: the title of a request's sheet depends on the month and the year of
\* its date only, and the sheet findTimesheetCell reads and the sheet
\* appendTimesheetData writes for one request are both the sheet of that title.
OneSheetPerRequest == []OneSheetState /\ [][OneSheetStep]_vars

\* requests for the same day of two months were both written, each into the
\* sheet of its month
OneSheetPerRequestWitness ==
    \E p, q \in Handlers :
        /\ status[p] = 201 /\ status[q] = 201
        /\ ParseDate(req[p].date).day = ParseDate(req[q].date).day
        /\ ParseDate(req[p].date).month # ParseDate(req[q].date).month
        /\ \E t \in touched[p], u \in touched[q] :
              t[1] = "cell" /\ u[1] = "cell" /\ t[2] # u[2]

----------------------------------------------------------------------------
(* The append-only writer (specification SpecProd, writer = "append") *)

\* the last row of the ledger whose first cell is not blank, 0 when none
LastFilledRow ==
    SetMax({0} \cup {a[1] : a \in {b \in DOMAIN ledger :
                                     b[2] = 1 /\ TrimSpace(ledger[b]) # <<>>}})

\* the read of column A by handler p settles the row under the last filled
\* one, row 2 when the header is alone
AppendFindStep ==
    \A p \in Handlers :
        (ppc[p] = "aFind" /\ ppc'[p] = "aUpdate")
          => /\ ploc'[p].targetRow = LastFilledRow + 1
             /\ ledger = UpdateRange(EmptyGrid, 1, 1, <<HeaderRow>>)
                  => ploc'[p].targetRow = 2
             /\ ledger' = ledger

\* the write of handler p: the seven values in order in the cells A..G of
\* the settled row, every other cell as it was; nothing when the call failed
AppendUpdateStep ==
    \A p \in Handlers :
        (ppc[p] = "aUpdate" /\ ppc'[p] = "done")
          => LET d == ploc[p].data
                 r == ploc[p].targetRow
                 written == <<d.date, d.fullName, d.partAndOperation, d.totalParts,
                              d.defective, d.goodParts, d.notes>>
             IN  IF pstatus'[p] = 201
                 THEN /\ \A c \in 1..7 : Cell(ledger', r, c) = written[c]
                      /\ \A a \in DOMAIN ledger \cup DOMAIN ledger' :
                            (a[1] # r \/ a[2] > 7)
                              => Cell(ledger', a[1], a[2]) = Cell(ledger, a[1], a[2])
                 ELSE ledger' = ledger

\* C14: the append-only writer writes one row, the cells A..G of the row under
\* the last row whose first cell is not blank (row 2 under a lone header), with
\* date, fullName, partAndOperation, totalParts, defective, goodParts, notes
\* in this order, and writes no other row.
AppendsOneRow == [][writer = "append" => AppendFindStep /\ AppendUpdateStep]_vars

\* a record was appended in row 3, under the record stored before
AppendsOneRowWitness ==
    /\ writer = "append"
    /\ \E p \in Handlers :
         /\ pstatus[p] = 201
         /\ ploc[p].targetRow = 3
         /\ LedgerRow(3) = newRow(ploc[p].data)
         /\ Cell(ledger, 2, 1) = StoredRow[1]
         /\ ploc[p].data.date # StoredRow[1]

----------------------------------------------------------------------------
(* The full-reflow writer (specification SpecProd, writer = "reflow") *)

\* the day a row is dated, as a number that grows with the date; 0 when the
\* first cell is no date in either notation
DateKey(row) ==
    LET d == ParseDate(convertDateFormat(row[1]))
    IN  IF d.ok THEN d.year * 10000 + d.month * 100 + d.day ELSE 0

\* the data rows of the matrix m, in order: all rows under the header but the
\* empty ones
DataRows(m) == SelectSeq(Tail(m), LAMBDA row : Len(row) > 0)

\* C16: in the matrix the full-reflow writer is about to write, no data row
\* with a date stands before a data row with an earlier date.
RowsAscending ==
    \A p \in Handlers :
        ppc[p] = "rUpdate"
          => LET rows == DataRows(ploc[p].finalData)
             IN  \A i, j \in 1..Len(rows) :
                    (i < j /\ DateKey(rows[i]) > 0 /\ DateKey(rows[j]) > 0)
                      => DateKey(rows[i]) <= DateKey(rows[j])

\* the rows of rows that are dated key, in their order
DatedRows(rows, key) == SelectSeq(rows, LAMBDA row : DateKey(row) = key)

\* the read of handler p: among the rows kept and the new record after them,
\* the rows of one date stand in the matrix in the order they had
TiesKeepOrderStep ==
    \A p \in Handlers :
        (ppc[p] = "rGet" /\ ppc'[p] = "rUpdate")
          => LET values == GetRange(ledger, Columns(ledger, 7))
                 input  == Append(cleanedData(Tail(values)), newRow(ploc[p].data))
                 output == DataRows(ploc'[p].finalData)
             IN  \A i \in 1..Len(input) :
                    DateKey(input[i]) > 0
                      => DatedRows(output, DateKey(input[i]))
                           = DatedRows(input, DateKey(input[i]))

\* C17: the full-reflow sort keeps rows of equal dates in their original
\* order, the new record after every stored row of its date.
TiesKeepOrder == [][TiesKeepOrderStep]_vars

\* two rows carry the same date, in whichever of the two notations
SameDate(rowA, rowB) == convertDateFormat(rowA[1]) = convertDateFormat(rowB[1])

\* C18: in the matrix the full-reflow writer is about to write, an empty row
\* stands between two data rows of different dates and nowhere else: not
\* between rows of one date, the notations DD.MM.YYYY and YYYY-MM-DD being the
\* same date, not twice, not first under the header and not last.
OneSeparatorPerDateChange ==
    \A p \in Handlers :
        ppc[p] = "rUpdate"
          => LET m == ploc[p].finalData
             IN  /\ Len(m) >= 2 /\ Len(m[2]) > 0 /\ Len(m[Len(m)]) > 0
                 /\ \A i \in 2..(Len(m) - 1) :
                       IF Len(m[i]) = 0
                       THEN /\ Len(m[i - 1]) > 0 /\ Len(m[i + 1]) > 0
                            /\ ~SameDate(m[i - 1], m[i + 1])
                       ELSE Len(m[i + 1]) > 0 => SameDate(m[i], m[i + 1])

\* row without its empty cells at the end, as Values.Get returns a row
RECURSIVE WithoutEmptyTail(_)
WithoutEmptyTail(row) ==
    IF Len(row) > 0 /\ row[Len(row)] = <<>>
    THEN WithoutEmptyTail(SubSeq(row, 1, Len(row) - 1))
    ELSE row

\* the update of handler p succeeded: the sheet now reads, row by row, as the
\* matrix that was written, header, records and empty separator rows
SheetIsTheMatrixStep ==
    \A p \in Handlers :
        (ppc[p] = "rUpdate" /\ ppc'[p] = "rSheetID")
          => LET m   == ploc[p].finalData
                 got == GetRange(ledger', Columns(ledger', 7))
             IN  /\ Len(got) = Len(m)
                 /\ \A i \in 1..Len(m) : got[i] = WithoutEmptyTail(m[i])

\* C19: what a full-reflow submission leaves in the sheet is its matrix: the
\* header, the stored rows with a first cell and the new record, each once,
\* and empty rows between them, with no row of the old layout left.
SheetIsTheMatrix == [][SheetIsTheMatrixStep]_vars

\* the remote calls of the full-reflow writer, in the order of its phases
ReflowPhases == <<"get", "update", "sheetId", "format">>

\* the calls handler p has made are the first phases in order, and none but
\* the last one failed; 201 is answered after four calls that succeeded
PhasesState ==
    writer = "reflow"
      => \A p \in Handlers :
           LET ops == ledgerOps[p]
           IN  /\ Len(ops) <= Len(ReflowPhases)
               /\ \A i \in 1..Len(ops) :
                     /\ ops[i].call = ReflowPhases[i]
                     /\ i < Len(ops) => ops[i].ok
               /\ pstatus[p] = 201 => Len(ops) = 4 /\ ops[4].ok
               /\ (Len(ops) > 0 /\ ~ops[Len(ops)].ok /\ ops[Len(ops)].call # "sheetId")
                     => pstatus[p] = 500

\* a step of handler p that makes a call: only the update changes the sheet,
\* and only when it succeeds, and then the new record stands in it
PhasesStep ==
    writer = "reflow"
      => \A p \in Handlers :
           Len(ledgerOps'[p]) = Len(ledgerOps[p]) + 1
             => LET op == ledgerOps'[p][Len(ledgerOps'[p])]
                IN  IF op.call = "update" /\ op.ok
                    THEN \E r \in {a[1] : a \in DOMAIN ledger'} :
                            [c \in 1..7 |-> Cell(ledger', r, c)] = newRow(ploc[p].data)
                    ELSE ledger' = ledger

\* C20: the full-reflow writer reads, then updates, then formats; after a
\* failed read nothing is written, after a failed update no format request is
\* sent, and a failed format request is answered 500 after the update stored
\* the record.
PhasesInOrder == []PhasesState /\ [][PhasesStep]_vars

\* the format request alone failed: 500 is answered and the record is stored
PhasesInOrderWitness ==
    /\ writer = "reflow"
    /\ \E p \in Handlers :
         /\ pstatus[p] = 500
         /\ Len(ledgerOps[p]) = 4
         /\ ~ledgerOps[p][4].ok
         /\ RowsHolding(newRow(ploc[p].data)) # {}

----------------------------------------------------------------------------
(* Provisioning of a month's sheet (specification Spec) *)

\* the sheet of the list ss with this id
SheetOfId(ss, id) == ss[IdxOfId(ss, id)]

\* a sheet that is not the copy handler p made carries the title of p's month
TitleTaken(p) ==
    \E i \in 1..Len(sheets) :
        sheets[i].title = monthSheetName(p) /\ sheets[i].id # loc[p].newSheetID

\* a step of handler p in CopyAndPrepareSheet while a sheet of the month's
\* title exists: that sheet keeps its title, its visibility, its place and
\* its cells, the cache stays as it is, and the check of the names ends the
\* call with an error, answered 500
TitleTakenStep ==
    \A p \in Handlers :
        (InCopy(p) /\ pc'[p] # pc[p] /\ TitleTaken(p))
          => LET id == IdOfTitle(sheets, monthSheetName(p))
             IN  /\ pc[p] \in {"cpCopy", "cpGet"}
                 /\ IdxOfId(sheets', id) = IdxOfId(sheets, id)
                 /\ SheetOfId(sheets', id) = SheetOfId(sheets, id)
                 /\ grid'[id] = grid[id]
                 /\ sheetCache' = sheetCache
                 /\ pc[p] = "cpGet"
                      => /\ pc'[p] = "done" /\ status'[p] = 500
                         /\ cloneLog' = Append(cloneLog, [title |-> monthSheetName(p),
                                                          ok |-> FALSE])

\* C21: when a sheet with the month's title exists while CopyAndPrepareSheet
\* runs, the call returns an error, the sheet keeps its title, cells and
\* visibility, and the cache is not changed.
TitleTakenIsAnError == [][TitleTakenStep]_vars

\* a request was answered 500 after it copied the template although the
\* month's sheet was there, and the title is still not cached
TitleTakenIsAnErrorWitness ==
    \E p \in Handlers :
        /\ status[p] = 500
        /\ touched[p] = {<<"copy">>}
        /\ HasTitle(sheets, monthSheetName(p))
        /\ ExistedAtStart(monthSheetName(p))
        /\ monthSheetName(p) \notin sheetCache

\* C22: whenever the copy a handler made carries the month's title, it is
\* already shown and second in the list, and its data region is cleared: the
\* spreadsheet is never seen with a titled clone that is not yet revealed,
\* repositioned and cleared.
RenamedMeansRevealed ==
    \A p \in Handlers :
        (loc[p].newSheetID # 0
           /\ SheetOfId(sheets, loc[p].newSheetID).title = monthSheetName(p))
          => /\ ~SheetOfId(sheets, loc[p].newSheetID).hidden
             /\ IdxOfId(sheets, loc[p].newSheetID) = 2
             /\ GetRange(grid[loc[p].newSheetID], ClearBand) = <<>>

----------------------------------------------------------------------------
(* Visibility of the sheets (specification SpecOneShown) *)

\* the sheets of ss that are shown, the production sheet aside
Shown(ss) == {ss[i].id : i \in {j \in 1..Len(ss) :
                                  ss[j].title # ProductionSheet /\ ~ss[j].hidden}}

\* the server started on a spreadsheet that shows at most one sheet beside
\* the production sheet
InitOneShown == Init /\ Cardinality(Shown(sheets)) <= 1

SpecOneShown == InitOneShown /\ [][Next]_vars

\* C23: started on a spreadsheet that shows at most one sheet beside the
\* production sheet, the server leaves, whenever no request is in progress
\* and every request made was answered 201, one sheet shown beside the
\* production sheet, the target of one of the requests.
OneShownAfter ==
    (/\ \A p \in Handlers : pc[p] \in {"idle", "done"} /\ status[p] \in {0, 201}
     /\ \E p \in Handlers : status[p] = 201)
      => /\ Cardinality(Shown(sheets)) <= 1
         /\ \E p \in Handlers :
              /\ status[p] = 201
              /\ IdOfTitle(sheets, monthSheetName(p)) \in Shown(sheets)

----------------------------------------------------------------------------
(* The production sheet stays visible (specification SpecVisible) *)

\* C24: no request of ensureSheetVisible hides the production sheet: in every
\* reachable state the production sheet, visible at the start, is visible
ProductionStaysShown ==
    \A i \in 1..Len(esv.sheets) :
        esv.sheets[i].title = ProductionSheet => ~esv.sheets[i].hidden

----------------------------------------------------------------------------
(* The retrying append (specification SpecRetry) *)

AllFailed(calls) == \A k \in 1..Len(calls) : ~calls[k]

RetryState ==
    LET n == Len(retry.calls)
    IN  /\ n <= 3
        /\ AllFailed(SubSeq(retry.calls, 1, n - 1))
        /\ retry.ret \in {"running", "nil", "error"}
        /\ retry.ret = "nil" <=> (n > 0 /\ retry.calls[n])
        /\ retry.ret = "error" <=> (n = 3 /\ AllFailed(retry.calls))
        /\ retry.ret = "running" => ENABLED Attempt
        /\ retry.ret = "nil" => retry.rows # <<>>

RetryStep ==
    /\ retry.ret = "running"
    /\ Len(retry'.calls) = Len(retry.calls) + 1

\* C25: appendProductionData and appendTimesheetData of the retrying revision
\* call the remote append at most 3 times, stop at and return nil after the
\* first call that succeeds, return an error exactly when 3 calls failed, and
\* terminate: a call that has not returned can take its next turn, and every
\* turn is one more remote call
ThreeAttempts == []RetryState /\ [][RetryStep]_vars

\* two failed calls, then a third that succeeds: nil is returned
ThreeAttemptsWitness ==
    /\ retry.calls = <<FALSE, FALSE, TRUE>>
    /\ retry.ret = "nil"

----------------------------------------------------------------------------
(* The lock of the cache (specification SpecLock) *)

\* the steps of handler p after the request was received
Serve(p) ==
    \/ HmsRLock(p)
    \/ HmsRUnlock(p)
    \/ HmsLock(p)
    \/ CpCopy(p)
    \/ CpGet(p)
    \/ CpBatch(p)
    \/ CpClear(p)
    \/ CpEsvGet(p)
    \/ CpEsvBatch(p)
    \/ EsvGet(p)
    \/ EsvBatch(p)
    \/ Find(p)
    \/ Write(p)

\* handleMonthSheet is given the date alone: the requests of this
\* specification carry one name and one number of hours
PlainRequest(data) ==
    /\ data.fullName \in {<<>>, <<"A">>}
    /\ data.hours \in {<<>>, <<"8">>}

NextLock ==
    \/ InitSheetCache
    \/ \E p \in Handlers :
         \/ Receive(p) /\ PlainRequest(req'[p])
         \/ Serve(p)

\* every goroutine that can run is run, every remote call returns, and the
\* RWMutex wakes a goroutine that waits for it
SpecLock == Init /\ [][NextLock]_vars /\ \A p \in Handlers : WF_vars(Serve(p))

\* handler p is inside handleMonthSheet
InHandleMonthSheet(p) == pc[p] \in {"hmsRLock", "hmsRUnlock", "hmsLock"} \cup CopyPcs

LockState ==
    /\ mux.writer # "none" => mux.readers = {}
    /\ \A p \in Handlers :
         /\ p \in mux.readers <=> pc[p] = "hmsRUnlock"
         /\ mux.writer = p <=> InCopy(p)

LockStep ==
    /\ (server = "serving" /\ sheetCache' # sheetCache)
         => \E p \in Handlers : mux.writer = p /\ pc[p] = "cpEsvBatch"
    /\ \A p \in Handlers :
         /\ (pc[p] = "hmsRLock" /\ pc'[p] # pc[p])
              => /\ p \in mux'.readers
                 /\ loc'[p].exists = (monthSheetName(p) \in sheetCache)
         /\ (pc[p] = "hmsLock" /\ pc'[p] # pc[p])
              => /\ mux = Unlocked
                 /\ InCopy(p)' = (monthSheetName(p) \notin sheetCache)

\* C26: handleMonthSheet reads and writes the cache only with the lock held,
\* holds the shared lock only between RLock and RUnlock and so never while it
\* asks for the exclusive one, holds the exclusive lock exactly while
\* CopyAndPrepareSheet runs and on no return path afterwards, and every call
\* that entered handleMonthSheet returns from it
LockDiscipline ==
    /\ []LockState
    /\ [][LockStep]_vars
    /\ \A p \in Handlers : InHandleMonthSheet(p) ~> ~InHandleMonthSheet(p)

\* both handlers were inside handleMonthSheet for a month not cached, one
\* provisioned it under the exclusive lock and the other, waiting for the
\* lock, found it cached; neither holds the lock any more
LockDisciplineWitness ==
    /\ mux = Unlocked
    /\ \A p \in Handlers : pc[p] = "done" /\ status[p] = 201
    /\ \E p, q \in Handlers :
         /\ touched[p] = {<<"visibility">>} \cup HoursCells(p)
         /\ <<"cache">> \in touched[q]
         /\ monthSheetName(p) = monthSheetName(q)

----------------------------------------------------------------------------
(* The name of the request in the name band (specification SpecLocate) *)

\* C27: a request whose name, with the surrounding whitespace trimmed, equals a
\* name-band cell with its whitespace trimmed is located, at the first row
\* holding the name
TrimmedNameLocated ==
    LET rows == NameRows(lcGrid, TrimSpace(lcReq.fullName))
    IN  (lcOut # NoCell("pending") /\ rows # {})
          => /\ lcOut.err # "full name not found"
             /\ lcOut.err = "" => lcOut.row = SetMin(rows)

----------------------------------------------------------------------------
(* After a provisioning that failed partway (specification Spec) *)

\* the month of handler p carries a title that a provisioning of this server
\* gave to its clone before it returned an error
RenamedThenFailed(p) ==
    /\ TitleTaken(p)
    /\ ~ExistedAtStart(monthSheetName(p))
    /\ monthSheetName(p) \notin sheetCache

\* C28: after a provisioning that failed once the clone was renamed, a later
\* request for that month is answered 201 when the remote calls succeed: at the
\* check for the name its provisioning can go on when Spreadsheets.Get succeeds
LaterRequestSucceeds ==
    \A p \in Handlers :
        (pc[p] = "cpGet" /\ RenamedThenFailed(p))
          => ENABLED (CpGet(p) /\ pc'[p] = "cpBatch")

----------------------------------------------------------------------------
(* The sheets after a failed provisioning (specification Spec) *)

SheetIds(ss) == {ss[i].id : i \in 1..Len(ss)}

FailedCopyStep ==
    \A p \in Handlers :
        (/\ InCopy(p) /\ ~InCopy(p)'
         /\ ~cloneLog'[Len(cloneLog')].ok)
          => /\ loc[p].newSheetID \notin SheetIds(sheets')
             /\ SheetIds(sheets') = SheetIds(sheets)

\* C29: when CopyAndPrepareSheet returns an error the spreadsheet holds the
\* sheets it held before the call: the copy the call made is not among them
FailedCopyLeavesNoSheet == [][FailedCopyStep]_vars

----------------------------------------------------------------------------
(* The cache of titles (specification Spec) *)

CacheState == sheetCache \subseteq Titles(sheets)

CacheStep ==
    /\ sheetCache \subseteq sheetCache'
    /\ (server = "serving" /\ sheetCache' # sheetCache)
         => \E p \in Handlers :
              /\ pc[p] = "cpEsvBatch"
              /\ sheetCache' = sheetCache \cup {monthSheetName(p)}
              /\ cloneLog' = Append(cloneLog, [title |-> monthSheetName(p), ok |-> TRUE])

\* C30: every title in the cache is the title of a sheet of the spreadsheet;
\* while the server serves, a title enters the cache only in the step in
\* which CopyAndPrepareSheet returns nil for it; no title leaves the cache
CacheSound == []CacheState /\ [][CacheStep]_vars

\* a month provisioned by a request is cached beside the titles found at the
\* start
CacheSoundWitness ==
    \E p \in Handlers :
        /\ <<"cache">> \in touched[p]
        /\ monthSheetName(p) \in sheetCache
        /\ ~ExistedAtStart(monthSheetName(p))
        /\ Cardinality(sheetCache) > 2


====
